---- MODULE Spec2Model ----
(***************************************************************************)
(* Velvet compiler backend: the type checker (typecheck/typecheck.rs),     *)
(* the IR generator's diagnostics (codegen/codegen.rs) and the driver      *)
(* that runs one after the other (main.rs).                                *)
(*                                                                         *)
(* check_expr and generate_ir_for_expr are recursive-descent functions     *)
(* over the syntax tree; they are written here as RECURSIVE operators that *)
(* thread the checker's (generator's) state through the traversal.  The    *)
(* driver's steps are the actions.  Two history variables record what the  *)
(* checker did, one entry per event: `returned' (one entry per normal      *)
(* return of check_expr) and `written' (one entry per type_table.insert).  *)
(***************************************************************************)
EXTENDS Integers, Sequences, FiniteSets, TLC

VARIABLES
    prog,          \* the parsed program: Vec<Node> handed to the driver
    compile_ir,    \* the driver's `compile` flag
    externals,     \* foreign modules named by the program (generator input)
    pc,            \* the driver's position
    idx,           \* index of the next top-level node (checking / lowering)
    scopes,        \* TypeChecker.scopes
    errors,        \* TypeChecker.errors
    type_table,    \* TypeChecker.type_table
    written,       \* history: node ids in the order type_table.insert ran
    returned,      \* history: one record per normal return of check_expr
    gen,           \* IRGenerator state (codegen.rs), a record
    pf             \* argument/result cell of the pure-function harness

vars == <<prog, compile_ir, externals, pc, idx, scopes, errors, type_table,
          written, returned, gen, pf>>

-----------------------------------------------------------------------------
(* Bounds of the input space *)

MaxListLen == 3
MaxArgs == 2
MaxParams == 2

-----------------------------------------------------------------------------
(* enum T *)

Integer8 == [tag |-> "Integer8"]
Integer16 == [tag |-> "Integer16"]
Integer32 == [tag |-> "Integer32"]
Integer64 == [tag |-> "Integer64"]
Integer128 == [tag |-> "Integer128"]
Boolean == [tag |-> "Boolean"]
Void == [tag |-> "Void"]
String == [tag |-> "String"]
Infer == [tag |-> "Infer"]
ExternWildcard == [tag |-> "ExternWildcard"]
Unknown == [tag |-> "Unknown"]

ArrayT(elem, stack, heap_at, count) ==
    [tag |-> "Array", array_t |-> elem, is_stack_alloca |-> stack,
     becomes_heap_at |-> heap_at, element_count |-> count]

FunctionT(params, ret) ==
    [tag |-> "Function", params |-> params, return_type |-> ret]

\* Option::None where the code has an Option<T>; Some(t) is t itself.
NoneT == [tag |-> "None"]

IntegerTypes == {Integer8, Integer16, Integer32, Integer64, Integer128}

\* Option<usize>::None for a node id
NoId == -1

-----------------------------------------------------------------------------
(* Numeric literals are strings of decimal digits (tokenizer.rs:237-252);  *)
(* they are kept as digit sequences and parsed/compared as such, since the *)
(* values the code distinguishes exceed 64 bits.                           *)

RECURSIVE StripZeros(_)
StripZeros(d) ==
    IF Len(d) > 1 /\ d[1] = 0 THEN StripZeros(Tail(d)) ELSE d

RECURSIVE LexGT(_, _, _)
LexGT(a, b, i) ==
    IF i > Len(a) THEN FALSE
    ELSE IF a[i] # b[i] THEN a[i] > b[i]
    ELSE LexGT(a, b, i + 1)

\* value(a) > value(b) for digit strings a, b
DigitsGT(a, b) ==
    LET x == StripZeros(a)
        y == StripZeros(b)
    IN  IF Len(x) # Len(y) THEN Len(x) > Len(y) ELSE LexGT(x, y, 1)

RECURSIVE NatToDigits(_)
NatToDigits(n) ==
    IF n < 10 THEN <<n>> ELSE Append(NatToDigits(n \div 10), n % 10)

I8_MAX == <<1,2,7>>
I16_MAX == <<3,2,7,6,7>>
I32_MAX == <<2,1,4,7,4,8,3,6,4,7>>
I64_MAX == <<9,2,2,3,3,7,2,0,3,6,8,5,4,7,7,5,8,0,7>>
I128_MAX == <<1,7,0,1,4,1,1,8,3,4,6,0,4,6,9,2,3,1,7,3,1,6,8,7,3,0,3,7,1,5,
              8,8,4,1,0,5,7,2,7>>
USIZE_MAX == <<1,8,4,4,6,7,4,4,0,7,3,7,0,9,5,5,1,6,1,5>>

\* str::parse::<i128>() on a digit string: Ok unless the value overflows
parse_i128_ok(d) == ~DigitsGT(d, I128_MAX)
\* str::parse::<usize>() / parse::<u64>() on a digit string (64-bit target)
parse_usize_ok(d) == ~DigitsGT(d, USIZE_MAX)

-----------------------------------------------------------------------------
(* impl T / TypeChecker helpers *)

resolve_with_hint(self, hint) ==
    IF /\ self.tag = "Array" /\ hint.tag = "Array"
       /\ self.element_count = 0
       /\ self.array_t = hint.array_t
    THEN [self EXCEPT !.element_count = hint.element_count]
    ELSE IF self.tag = "Infer" THEN hint
    ELSE self

types_match(expected, actual) ==
    IF expected.tag = "Array" /\ actual.tag = "Array"
    THEN /\ expected.array_t = actual.array_t
         /\ expected.is_stack_alloca = actual.is_stack_alloca
         /\ expected.becomes_heap_at = actual.becomes_heap_at
         /\ (expected.element_count = 0
             \/ expected.element_count = actual.element_count)
    ELSE expected = actual

\* a coercion relation that ignores the direction of the width change
can_coerce_either_way(from, to) ==
    (from \in IntegerTypes /\ to \in IntegerTypes) \/ from = to

WideningPairs ==
    { <<"Integer8", "Integer16">>, <<"Integer8", "Integer32">>,
      <<"Integer8", "Integer64">>, <<"Integer8", "Integer128">>,
      <<"Integer16", "Integer32">>, <<"Integer16", "Integer64">>,
      <<"Integer16", "Integer128">>, <<"Integer32", "Integer64">>,
      <<"Integer32", "Integer128">>, <<"Integer64", "Integer128">> }

can_coerce(from, to) ==
    IF <<from.tag, to.tag>> \in WideningPairs THEN TRUE
    ELSE IF from.tag = "Integer32" /\ to.tag = "Infer" THEN TRUE
    ELSE IF from.tag = "Infer" /\ to.tag = "Integer32" THEN FALSE
    ELSE IF to.tag = "ExternWildcard" THEN TRUE
    ELSE from = to

\* HashMap::new() / HashMap::insert
EmptyMap == [k \in {} |-> Unknown]

MapInsert(m, k, v) ==
    [x \in (DOMAIN m) \cup {k} |-> IF x = k THEN v ELSE m[x]]

\* The checker's state as one value: the fields of struct TypeChecker plus
\* the two histories and the abort flag (a Rust panic unwinds the process).
Checker(sc, er, tt, wr, rt, h) ==
    [scopes |-> sc, errors |-> er, type_table |-> tt,
     written |-> wr, returned |-> rt, halt |-> h, overflow_checks |-> TRUE]

\* the same checker in a build whose arithmetic panics on overflow
\* (overflow_checks) or wraps
built_with(c, overflow_checks) == [c EXCEPT !.overflow_checks = overflow_checks]

NewChecker == Checker(<< >>, << >>, EmptyMap, << >>, << >>, "none")

type_error(c, kind, node_id, arg) ==
    [c EXCEPT !.errors = Append(@, [kind |-> kind, node |-> node_id, arg |-> arg])]

panic(c) == [c EXCEPT !.halt = "panic"]

enter_scope(c) == [c EXCEPT !.scopes = Append(@, EmptyMap)]

\* self.scopes.pop().expect("No scope to pop off")
exit_scope(c) ==
    IF Len(c.scopes) = 0 THEN panic(c)
    ELSE [c EXCEPT !.scopes = SubSeq(@, 1, Len(@) - 1)]

\* self.scopes.last_mut().unwrap().insert(name, ty)
scope_insert(c, name, ty) ==
    IF Len(c.scopes) = 0 THEN panic(c)
    ELSE [c EXCEPT !.scopes[Len(c.scopes)] = MapInsert(@, name, ty)]

RECURSIVE lookup_from(_, _, _)
lookup_from(sc, name, i) ==
    IF i = 0 THEN NoneT
    ELSE IF name \in DOMAIN sc[i] THEN sc[i][name]
    ELSE lookup_from(sc, name, i - 1)

lookup_variable_type(c, name) == lookup_from(c.scopes, name, Len(c.scopes))

\* Result of the `match node` expression of check_expr: the state, the type,
\* and whether the arm left check_expr with `return` (skipping the tail).
Ret(c, ty) == [c |-> c, ty |-> ty, early |-> FALSE]
EarlyRet(c, ty) == [c |-> c, ty |-> ty, early |-> TRUE]
Halted(r) == r.c.halt # "none"

\* `at` is the id of the node on whose behalf the error is recorded
enforce_equality(c, given, expected, at) ==
    IF given = expected \/ can_coerce(given, expected) THEN Ret(c, expected)
    ELSE IF can_coerce(expected, given)
         THEN Ret(type_error(c, "cannot_coerce", at, 0), Unknown)
    ELSE Ret(type_error(c, "expected_got", at, 0), Unknown)

-----------------------------------------------------------------------------
(* TypeChecker::check_expr, one operator per arm of `match node` *)

RECURSIVE check_expr(_, _, _)
RECURSIVE check_list_props(_, _, _, _)
RECURSIVE check_call_args(_, _, _, _)
RECURSIVE check_plain_args(_, _, _)
RECURSIVE check_fn_body(_, _, _, _)
RECURSIVE check_stmts(_, _, _, _)
RECURSIVE check_match_arms(_, _, _, _, _)

\* for (index, expr) in l.props.iter().enumerate() { ... }
\* result: the state and inferred_elem_ty
check_list_props(c, l, i, inferred) ==
    IF i > Len(l.props) THEN [c |-> c, inferred |-> inferred]
    ELSE LET r == check_expr(c, l.props[i], inferred)
         IN  IF Halted(r) THEN [c |-> r.c, inferred |-> inferred]
             ELSE IF inferred # NoneT
                  THEN check_list_props(
                           IF ~can_coerce(r.ty, inferred)
                           THEN type_error(r.c, "non_uniform", l.id, i - 1)
                           ELSE r.c,
                           l, i + 1, inferred)
             ELSE check_list_props(r.c, l, i + 1, r.ty)

\* a list check that takes the element type from the last element checked
RECURSIVE check_list_props_last(_, _, _, _)
check_list_props_last(c, l, i, inferred) ==
    IF i > Len(l.props) THEN [c |-> c, inferred |-> inferred]
    ELSE LET r == check_expr(c, l.props[i], inferred)
         IN  IF Halted(r) THEN [c |-> r.c, inferred |-> inferred]
             ELSE check_list_props_last(r.c, l, i + 1, r.ty)

check_ListLiteral_last(c, l) ==
    LET r == check_list_props_last(c, l, 1, NoneT)
    IN  Ret(r.c, ArrayT(IF r.inferred # NoneT THEN r.inferred ELSE Unknown,
                        TRUE, 0, Len(l.props)))

check_ListLiteral(c, l) ==
    LET end_type_array == ArrayT(Unknown, TRUE, 0, Len(l.props))
        r == check_list_props(c, l, 1, NoneT)
    IN  IF r.inferred # NoneT
        THEN Ret(r.c, ArrayT(r.inferred, TRUE, 0, Len(l.props)))
        ELSE Ret(r.c, end_type_array)

\* the bounds check of a literal index: element_count < indexing_to + 1
index_out_of_bounds(element_count, literal) ==
    ~DigitsGT(NatToDigits(element_count), literal)

\* indexing_to + 1 leaves the range of usize
add_one_overflows(literal) == StripZeros(literal) = USIZE_MAX

check_MemberExpr(c, m) ==
    LET p == check_expr(c, m.object, NoneT)
    IN  IF Halted(p) THEN p
        ELSE IF p.ty.tag # "Array" THEN Ret(p.c, Unknown)
        ELSE
        LET x == check_expr(p.c, m.property, Integer32)
            c1 == IF x.ty # Integer32
                  THEN type_error(x.c, "index_not_i32", m.id, 0)
                  ELSE x.c
        IN  IF Halted(x) THEN x
            ELSE IF /\ m.property.kind = "NumericLiteral"
                    /\ p.ty.is_stack_alloca
                    /\ p.ty.element_count > 0
                 THEN IF ~parse_usize_ok(m.property.literal_value)
                      THEN Ret(panic(c1), Unknown)
                      ELSE IF add_one_overflows(m.property.literal_value)
                      THEN IF c1.overflow_checks
                           THEN Ret(panic(c1), Unknown)
                           ELSE Ret(c1, p.ty.array_t)   \* element_count < 0
                      ELSE IF index_out_of_bounds(p.ty.element_count,
                                                  m.property.literal_value)
                           THEN Ret(type_error(c1, "out_of_bounds", m.id, 0),
                                    p.ty.array_t)
                           ELSE Ret(c1, p.ty.array_t)
            ELSE Ret(c1, p.ty.array_t)

\* a width ladder whose lowest rung is the narrowest type
literal_width_narrowest(val) ==
    IF DigitsGT(val, I64_MAX) THEN Integer128
    ELSE IF DigitsGT(val, I32_MAX) THEN Integer64
    ELSE IF DigitsGT(val, I16_MAX) THEN Integer32
    ELSE IF DigitsGT(val, I8_MAX) THEN Integer16
    ELSE Integer8

\* the width ladder of an unhinted literal
literal_width(val) ==
    IF DigitsGT(val, I64_MAX) THEN Integer128
    ELSE IF DigitsGT(val, I32_MAX) THEN Integer64
    ELSE IF DigitsGT(val, I16_MAX) THEN Integer32
    ELSE IF DigitsGT(val, I8_MAX) THEN Integer16
    ELSE Integer32

check_NumericLiteral(c, n, expected) ==
    IF expected \in IntegerTypes THEN Ret(c, expected)
    ELSE IF ~parse_i128_ok(n.literal_value) THEN Ret(panic(c), Unknown)
    ELSE Ret(c, literal_width(n.literal_value))

\* for (index, (arg_expr, expected_ty)) in args.zip(params).enumerate()
check_call_args(c, cexpr, params, i) ==
    IF i > Len(cexpr.args) \/ i > Len(params) THEN c
    ELSE LET r == check_expr(c, cexpr.args[i], params[i].ty)
         IN  IF Halted(r) THEN r.c
             ELSE check_call_args(
                      IF /\ ~types_match(params[i].ty, r.ty)
                         /\ ~can_coerce(r.ty, params[i].ty)
                      THEN type_error(r.c, "arg_mismatch", cexpr.id, i)
                      ELSE r.c,
                      cexpr, params, i + 1)

\* for arg_expr in cexpr.args.iter() { self.check_expr(arg_expr, None, ..) }
check_plain_args(c, cexpr, i) ==
    IF i > Len(cexpr.args) THEN c
    ELSE LET r == check_expr(c, cexpr.args[i], NoneT)
         IN  IF Halted(r) THEN r.c ELSE check_plain_args(r.c, cexpr, i + 1)

\* a call check that reports the arity and goes on to check the arguments
check_CallExpr_lenient(c, cexpr) ==
    LET f == check_expr(c, cexpr.caller, NoneT)
    IN  IF Halted(f) THEN f
        ELSE IF f.ty.tag = "Function"
        THEN Ret(check_call_args(
                     IF Len(f.ty.params) # Len(cexpr.args)
                     THEN type_error(f.c, "arity", cexpr.id, 0) ELSE f.c,
                     cexpr, f.ty.params, 1),
                 f.ty.return_type)
        ELSE Ret(check_plain_args(f.c, cexpr, 1), Infer)

check_CallExpr(c, cexpr) ==
    LET f == check_expr(c, cexpr.caller, NoneT)
    IN  IF Halted(f) THEN f
        ELSE IF f.ty.tag = "Function"
        THEN IF Len(f.ty.params) # Len(cexpr.args)
             THEN EarlyRet(type_error(f.c, "arity", cexpr.id, 0), Unknown)
             ELSE Ret(check_call_args(f.c, cexpr, f.ty.params, 1),
                      f.ty.return_type)
        ELSE Ret(check_plain_args(f.c, cexpr, 1), Infer)

\* for stmt in &*fdef.body { ... }; result: the state and saw_return
check_fn_body(c, fdef, i, saw_return) ==
    IF i > Len(fdef.body) THEN [c |-> c, saw_return |-> saw_return]
    ELSE LET stmt == fdef.body[i]
         IN  IF stmt.kind = "Return"
             THEN LET v == check_expr(c, stmt.return_statement, fdef.return_type)
                  IN  IF Halted(v) THEN [c |-> v.c, saw_return |-> TRUE]
                      ELSE check_fn_body(
                               IF v.ty # fdef.return_type
                               THEN type_error(v.c, "return_mismatch", fdef.id, i)
                               ELSE v.c,
                               fdef, i + 1, TRUE)
             ELSE LET s == check_expr(c, stmt, NoneT)
                  IN  IF Halted(s) THEN [c |-> s.c, saw_return |-> saw_return]
                      ELSE check_fn_body(s.c, fdef, i + 1, saw_return)

\* if return_type != T::Unknown && !saw_return
missing_return(return_type, saw_return) ==
    return_type # Unknown /\ ~saw_return

RECURSIVE insert_params(_, _, _)
insert_params(c, params, i) ==
    IF i > Len(params) \/ c.halt # "none" THEN c
    ELSE insert_params(scope_insert(c, params[i].name, params[i].ty), params, i + 1)

\* a definition check that binds the function's name before its body
check_FunctionDefinition_early(c, fdef) ==
    LET f == FunctionT(fdef.params, fdef.return_type)
        c1 == insert_params(enter_scope(scope_insert(c, fdef.name, f)), fdef.params, 1)
        b == check_fn_body(c1, fdef, 1, FALSE)
        c2 == IF missing_return(fdef.return_type, b.saw_return)
              THEN type_error(b.c, "missing_return", fdef.id, 0)
              ELSE b.c
        c3 == exit_scope(c2)
    IN  IF b.c.halt # "none" THEN Ret(b.c, Unknown)
        ELSE IF c3.halt # "none" THEN Ret(c3, Unknown)
        ELSE Ret(c3, f)

check_FunctionDefinition(c, fdef) ==
    LET c1 == insert_params(enter_scope(c), fdef.params, 1)
        b == check_fn_body(c1, fdef, 1, FALSE)
        c2 == IF missing_return(fdef.return_type, b.saw_return)
              THEN type_error(b.c, "missing_return", fdef.id, 0)
              ELSE b.c
        c3 == exit_scope(c2)
        f == FunctionT(fdef.params, fdef.return_type)
    IN  IF b.c.halt # "none" THEN Ret(b.c, Unknown)
        ELSE IF c3.halt # "none" THEN Ret(c3, Unknown)
        ELSE Ret(scope_insert(c3, fdef.name, f), f)

check_VarDeclaration(c, vdecl) ==
    LET e == check_expr(c, vdecl.var_value, vdecl.var_type)
        resolved_ty == resolve_with_hint(vdecl.var_type, e.ty)
    IN  IF Halted(e) THEN e
        ELSE IF ~types_match(resolved_ty, e.ty)
        THEN IF ~can_coerce(e.ty, resolved_ty)
             THEN Ret(type_error(e.c, "cannot_assign", vdecl.id, 0), Unknown)
             ELSE Ret(scope_insert(e.c, vdecl.var_identifier, resolved_ty),
                      resolved_ty)
        ELSE Ret(scope_insert(e.c, vdecl.var_identifier, resolved_ty),
                 resolved_ty)

\* a cast check that gives up the target type when the cast is refused
check_TypeCast_unknown(c, tc) ==
    LET l == check_expr(c, tc.left, NoneT)
    IN  IF Halted(l) THEN l
        ELSE IF ~can_coerce(l.ty, tc.target_type)
        THEN Ret(type_error(l.c, "cannot_cast", tc.id, 0), Unknown)
        ELSE Ret(l.c, tc.target_type)

check_TypeCast(c, tc) ==
    LET l == check_expr(c, tc.left, NoneT)
    IN  IF Halted(l) THEN l
        ELSE IF ~can_coerce(l.ty, tc.target_type)
        THEN Ret(type_error(l.c, "cannot_cast", tc.id, 0), tc.target_type)
        ELSE Ret(l.c, tc.target_type)

check_BinaryExpr(c, bin) ==
    LET l == check_expr(c, bin.left, NoneT)
        r == check_expr(l.c, bin.right, l.ty)
    IN  IF Halted(l) THEN l
        ELSE IF Halted(r) THEN r
        ELSE IF l.ty # r.ty
        THEN Ret(type_error(r.c, "binary_mismatch", bin.id, 0), Unknown)
        ELSE Ret(r.c, l.ty)

check_AssignmentExpr(c, a) ==
    LET l == check_expr(c, a.left, NoneT)
        v == check_expr(l.c, a.value, l.ty)
    IN  IF Halted(l) THEN l
        ELSE IF Halted(v) THEN v
        ELSE enforce_equality(v.c, v.ty, l.ty, a.id)

check_Identifier(c, ident) ==
    LET var_t == lookup_variable_type(c, ident.identifier_name)
    IN  IF var_t # NoneT THEN Ret(c, var_t) ELSE Ret(c, Unknown)

\* for sub_node in body { last_val = self.check_expr(sub_node, None, ..) }
check_stmts(c, body, i, last_val) ==
    IF i > Len(body) THEN Ret(c, last_val)
    ELSE LET r == check_expr(c, body[i], NoneT)
         IN  IF Halted(r) THEN r ELSE check_stmts(r.c, body, i + 1, r.ty)

check_Block(c, b) == check_stmts(c, b.body, 1, Unknown)

check_WhileStmt(c, ws) ==
    LET k == check_expr(c, ws.condition, NoneT)
    IN  IF Halted(k) THEN k ELSE check_stmts(k.c, ws.body, 1, Unknown)

check_Comparator(c, comp) ==
    LET l == check_expr(c, comp.lhs, NoneT)
        r == check_expr(l.c, comp.rhs, l.ty)
    IN  IF Halted(l) THEN l
        ELSE IF Halted(r) THEN r
        ELSE Ret(r.c, l.ty)

check_IfStmt(c, i) ==
    LET k == check_expr(c, i.condition, NoneT)
        b == check_stmts(k.c, i.body, 1, Unknown)
    IN  IF Halted(k) THEN k
        ELSE IF Halted(b) THEN b
        ELSE Ret(b.c, Unknown)

check_Return(c, r) == 
    LET v == check_expr(c, r.return_statement, NoneT)
    IN  IF Halted(v) THEN v ELSE Ret(v.c, v.ty)

\* for arm in &mexpr.arms { check arm.0 with Some(&target); check arm.1 }
check_match_arms(c, mexpr, target, i, last_right) ==
    IF i > Len(mexpr.arms) THEN Ret(c, last_right)
    ELSE LET p == check_expr(c, mexpr.arms[i][1], target)
             b == check_expr(p.c, mexpr.arms[i][2], NoneT)
         IN  IF Halted(p) THEN p
             ELSE IF Halted(b) THEN b
             ELSE check_match_arms(b.c, mexpr, target, i + 1, b.ty)

check_MatchExpr(c, mexpr, expected) ==
    LET t == check_expr(c, mexpr.target, NoneT)
    IN  IF Halted(t) THEN t
        ELSE IF Len(mexpr.arms) = 0 THEN Ret(panic(t.c), Unknown)
        ELSE LET base_type == check_expr(t.c, mexpr.arms[1][1], expected)
             IN  IF Halted(base_type) THEN base_type
                 ELSE check_match_arms(base_type.c, mexpr, t.ty, 1, Unknown)

check_NullishCoalescing(c, n) ==
    LET l == check_expr(c, n.left, NoneT)
    IN  IF Halted(l) THEN l ELSE Ret(l.c, l.ty)

\* let ty = match node { ... }
check_node(c, node, expected) ==
    CASE node.kind = "BoolLiteral" -> Ret(c, Boolean)
      [] node.kind = "StringLiteral" -> Ret(c, String)
      [] node.kind = "ListLiteral" -> check_ListLiteral(c, node)
      [] node.kind = "MemberExpr" -> check_MemberExpr(c, node)
      [] node.kind = "NumericLiteral" -> check_NumericLiteral(c, node, expected)
      [] node.kind = "CallExpr" -> check_CallExpr(c, node)
      [] node.kind = "FunctionDefinition" -> check_FunctionDefinition(c, node)
      [] node.kind = "VarDeclaration" -> check_VarDeclaration(c, node)
      [] node.kind = "TypeCast" -> check_TypeCast(c, node)
      [] node.kind = "BinaryExpr" -> check_BinaryExpr(c, node)
      [] node.kind = "AssignmentExpr" -> check_AssignmentExpr(c, node)
      [] node.kind = "Identifier" -> check_Identifier(c, node)
      [] node.kind = "Block" -> check_Block(c, node)
      [] node.kind = "WhileStmt" -> check_WhileStmt(c, node)
      [] node.kind = "Comparator" -> check_Comparator(c, node)
      [] node.kind = "IfStmt" -> check_IfStmt(c, node)
      [] node.kind = "Return" -> check_Return(c, node)
      [] node.kind = "MatchExpr" -> check_MatchExpr(c, node, expected)
      [] node.kind = "NullishCoalescing" -> check_NullishCoalescing(c, node)
      [] node.kind = "NoOpNode" -> Ret(c, Unknown)
      [] OTHER -> Ret(panic(c), Unknown)   \* _ => unimplemented!("{:?}", node)

\* self.type_table.insert(node_id.unwrap(), ty.clone())
table_insert(c, id, ty) ==
    [c EXCEPT !.type_table = MapInsert(@, id, ty),
              !.written = Append(@, id)]

\* one record of the `returned' history: what this invocation was given,
\* what it returned, the table's entry for the node at that moment, and where
\* the invocation began in the two append-only lists; s0 and s1 are the scope
\* frames when the invocation began and when it returned.
ReturnRecord(c0, c, node, expected, ty) ==
    [node |-> node, expected |-> expected, ty |-> ty,
     s0 |-> c0.scopes, s1 |-> c.scopes,
     tabled |-> IF node.id \in DOMAIN c.type_table
                THEN c.type_table[node.id] ELSE NoneT,
     e0 |-> Len(c0.errors), e1 |-> Len(c.errors),
     r0 |-> Len(c0.returned)]

log_return(c0, c, node, expected, ty) ==
    [c EXCEPT !.returned = Append(@, ReturnRecord(c0, c, node, expected, ty))]

check_expr(c, node, expected) ==
    LET r == check_node(c, node, expected)
    IN  IF Halted(r) THEN r
        ELSE IF r.early
             THEN Ret(log_return(c, r.c, node, expected, r.ty), r.ty)
        ELSE IF node.id = NoId THEN Ret(panic(r.c), r.ty)
        ELSE Ret(log_return(c, table_insert(r.c, node.id, r.ty),
                            node, expected, r.ty),
                 r.ty)

-----------------------------------------------------------------------------
(* enum Node (parser/nodetypes.rs): one constructor per variant the passes *)
(* look into.  `id' is Option<usize>: NoId for None.                        *)

NumericLiteral(i, d) == [kind |-> "NumericLiteral", id |-> i, literal_value |-> d]
StringLiteral(i) == [kind |-> "StringLiteral", id |-> i]
BoolLiteral(i, b) == [kind |-> "BoolLiteral", id |-> i, literal_value |-> b]
Identifier(i, name) == [kind |-> "Identifier", id |-> i, identifier_name |-> name]
ListLiteral(i, props) == [kind |-> "ListLiteral", id |-> i, props |-> props]
MemberExpr(i, object, property) ==
    [kind |-> "MemberExpr", id |-> i, object |-> object, property |-> property]
CallExpr(i, caller, args) ==
    [kind |-> "CallExpr", id |-> i, caller |-> caller, args |-> args]
FunctionDefinition(i, name, params, return_type, body) ==
    [kind |-> "FunctionDefinition", id |-> i, name |-> name, params |-> params,
     return_type |-> return_type, body |-> body]
VarDeclaration(i, is_mutable, name, var_type, var_value) ==
    [kind |-> "VarDeclaration", id |-> i, is_mutable |-> is_mutable,
     var_identifier |-> name, var_type |-> var_type, var_value |-> var_value]
TypeCast(i, left, target_type) ==
    [kind |-> "TypeCast", id |-> i, left |-> left, target_type |-> target_type]
BinaryExpr(i, op, left, right) ==
    [kind |-> "BinaryExpr", id |-> i, op |-> op, left |-> left, right |-> right]
AssignmentExpr(i, left, value) ==
    [kind |-> "AssignmentExpr", id |-> i, left |-> left, value |-> value]
Block(i, body) == [kind |-> "Block", id |-> i, body |-> body]
WhileStmt(i, condition, body) ==
    [kind |-> "WhileStmt", id |-> i, condition |-> condition, body |-> body]
Comparator(i, op, lhs, rhs) ==
    [kind |-> "Comparator", id |-> i, op |-> op, lhs |-> lhs, rhs |-> rhs]
IfStmt(i, condition, body) ==
    [kind |-> "IfStmt", id |-> i, condition |-> condition, body |-> body]
Return(i, e) == [kind |-> "Return", id |-> i, return_statement |-> e]
MatchExpr(i, target, arms) ==
    [kind |-> "MatchExpr", id |-> i, target |-> target, arms |-> arms]
NullishCoalescing(i, left, right) ==
    [kind |-> "NullishCoalescing", id |-> i, left |-> left, right |-> right]
NoOpNode(i) == [kind |-> "NoOpNode", id |-> i]
\* variants check_expr has no arm for
Iterator(i, right, body) ==
    [kind |-> "Iterator", id |-> i, right |-> right, body |-> body]
ObjectLiteral(i) == [kind |-> "ObjectLiteral", id |-> i]
NullLiteral(i) == [kind |-> "NullLiteral", id |-> i]

Param(name, ty) == [name |-> name, ty |-> ty]

-----------------------------------------------------------------------------
(* The programs the driver is run on *)

\* 9223372036854775808 = i64::MAX + 1, and i128::MAX + 1
I64_MAX_P1 == <<9,2,2,3,3,7,2,0,3,6,8,5,4,7,7,5,8,0,8>>
I128_MAX_P1 == <<1,7,0,1,4,1,1,8,3,4,6,0,4,6,9,2,3,1,7,3,1,6,8,7,3,0,3,7,1,5,
                 8,8,4,1,0,5,7,2,8>>

LiteralValues ==
    { <<0>>, <<5>>, <<0,0,7>>, I8_MAX, <<1,2,8>>, I16_MAX, <<3,2,7,6,8>>,
      I32_MAX, <<2,1,4,7,4,8,3,6,4,8>>, <<9,9,9,9,9,9,9,9,9,9,9,9>>,
      I64_MAX, I64_MAX_P1, I128_MAX, I128_MAX_P1 }

\* the types a declaration can name (identifier_to_type), plus `T[]`
DeclTypes ==
    IntegerTypes \cup {Boolean, String, Infer, ExternWildcard,
                       ArrayT(Integer32, TRUE, 0, 0)}

\* leaf expressions used as list elements and call arguments
Atoms ==
    { [k |-> "num", v |-> <<1>>], [k |-> "num", v |-> <<9,9,9,9,9,9,9,9,9,9,9,9>>],
      [k |-> "str"], [k |-> "bool"], [k |-> "ident", name |-> "u"] }

Leaf(i, a) ==
    CASE a.k = "num" -> NumericLiteral(i, a.v)
      [] a.k = "str" -> StringLiteral(i)
      [] a.k = "bool" -> BoolLiteral(i, TRUE)
      [] a.k = "ident" -> Identifier(i, a.name)

SeqsUpTo(S, n) == UNION { [1..k -> S] : k \in 0..n }

\* leaves numbered base+1 .. base+Len(as)
Leaves(base, as) == [i \in 1..Len(as) |-> Leaf(base + i, as[i])]

LiteralPrograms ==
    { <<NumericLiteral(0, v)>> : v \in LiteralValues }
    \cup { <<VarDeclaration(1, FALSE, "x", t, NumericLiteral(0, v))>> :
             t \in DeclTypes, v \in LiteralValues }

\* bind a = [1]   followed by   a[k]
IndexProgram(k) ==
    <<VarDeclaration(2, FALSE, "a", ArrayT(Integer32, TRUE, 0, 0),
                     ListLiteral(1, <<NumericLiteral(0, <<1>>)>>)),
      MemberExpr(5, Identifier(3, "a"), NumericLiteral(4, k))>>

\* index literals at and beyond the largest usize
HugeIndexes ==
    { USIZE_MAX, <<1,8,4,4,6,7,4,4,0,7,3,7,0,9,5,5,1,6,1,6>> }

ListPrograms ==
    { <<ListLiteral(Len(as), Leaves(-1, as))>> : as \in SeqsUpTo(Atoms, MaxListLen) }
    \cup { <<VarDeclaration(Len(as) + 1, FALSE, "a", ArrayT(Integer32, TRUE, 0, 0),
                            ListLiteral(Len(as), Leaves(-1, as))),
             MemberExpr(Len(as) + 4, Identifier(Len(as) + 2, "a"),
                        NumericLiteral(Len(as) + 3, <<k>>))>> :
             as \in SeqsUpTo({[k |-> "num", v |-> <<1>>]}, MaxListLen),
             k \in 0..MaxListLen }
    \cup { IndexProgram(k) : k \in HugeIndexes }

ParamTypes == {Integer64, String}
ParamNames == <<"p", "q", "r", "s">>

\* -> f(p as .., q as ..) => i64 { ; 1 }   followed by   f(args)
CallPrograms ==
    { <<FunctionDefinition(2, "f",
                           [i \in 1..Len(ps) |-> Param(ParamNames[i], ps[i])],
                           Integer64,
                           <<Return(1, NumericLiteral(0, <<1>>))>>),
        CallExpr(3, Identifier(4, "f"), Leaves(4, as))>> :
          ps \in SeqsUpTo(ParamTypes, MaxParams), as \in SeqsUpTo(Atoms, MaxArgs) }
    \cup
    \* a call of a name that is not bound to a function
    { <<CallExpr(0, Identifier(1, "g"), Leaves(1, as))>> :
          as \in SeqsUpTo(Atoms, MaxArgs) }
    \cup
    \* a call of a function whose body returns nothing, and a call of main
    { <<FunctionDefinition(2, "f", << >>, Unknown, <<NumericLiteral(0, <<1>>)>>),
        CallExpr(3, Identifier(4, "f"), << >>)>>,
      <<CallExpr(0, Identifier(1, "main"), << >>)>> }

ReturnTypes == {Integer32, Integer64, String, Boolean, Void, Unknown, Infer}

\* bodies of a function definition, with and without a `return'
FnBodies ==
    { << >>,
      <<NumericLiteral(0, <<1>>)>>,
      <<Return(1, NumericLiteral(0, <<1>>))>>,
      <<Return(1, StringLiteral(0))>>,
      <<NumericLiteral(0, <<1>>), Return(2, NumericLiteral(1, <<2>>))>>,
      <<Return(1, NumericLiteral(0, <<1>>)), Return(3, NumericLiteral(2, <<2>>))>>,
      <<IfStmt(3, BoolLiteral(0, TRUE), <<Return(2, NumericLiteral(1, <<1>>))>>)>>,
      <<WhileStmt(3, BoolLiteral(0, TRUE), <<Return(2, NumericLiteral(1, <<1>>))>>)>>,
      <<Block(2, <<Return(1, NumericLiteral(0, <<1>>))>>)>>,
      <<Return(1, Identifier(0, "p"))>>,
      <<IfStmt(3, BoolLiteral(0, TRUE), <<Return(2, NumericLiteral(1, <<1>>))>>),
        Return(6, StringLiteral(4))>> }

FnPrograms ==
    { <<FunctionDefinition(5, "f", ps, rt, body)>> :
          rt \in ReturnTypes, body \in FnBodies,
          ps \in { << >>, <<Param("p", Integer32)>> } }
    \cup
    \* a function that calls itself
    { <<FunctionDefinition(5, "f", <<Param("p", Integer32)>>, Integer32,
          <<Return(4, CallExpr(3, Identifier(0, "f"), <<Identifier(1, "p")>>))>>)>>,
      <<FunctionDefinition(5, "f", <<Param("p", Integer32)>>, Integer32,
          <<CallExpr(2, Identifier(0, "f"), <<Identifier(1, "p")>>),
            Return(4, NumericLiteral(3, <<1>>))>>)>>,
      <<FunctionDefinition(5, "f", << >>, Infer,
          <<Return(4, CallExpr(3, Identifier(0, "f"), << >>))>>)>> }

MatchArm(base, pat, body) ==
    <<NumericLiteral(base, pat), Block(base + 2, <<Leaf(base + 1, body)>>)>>

MatchPrograms ==
    { <<MatchExpr(10, Leaf(0, t), << >>)>> : t \in Atoms }
    \cup { <<MatchExpr(10, Leaf(0, t), <<MatchArm(1, <<1>>, b)>>)>> :
             t \in Atoms, b \in Atoms }
    \cup { <<MatchExpr(10, Leaf(0, t), <<MatchArm(1, <<1>>, b), MatchArm(4, <<3,0,0>>, b2)>>)>> :
             t \in Atoms, b \in Atoms, b2 \in Atoms }
    \cup { <<VarDeclaration(11, FALSE, "x", ty,
               MatchExpr(10, NumericLiteral(0, <<1>>), <<MatchArm(1, <<3,0,0>>, b)>>))>> :
             ty \in DeclTypes, b \in Atoms }

\* one program per remaining construct
\* bind x as i32 = 1 + 2
BindSum ==
    <<VarDeclaration(3, FALSE, "x", Integer32,
        BinaryExpr(2, "+", NumericLiteral(0, <<1>>), NumericLiteral(1, <<2>>)))>>

\* bind p as i32 = 1   followed by   -> f(p as i32) => i32 { return p }
ShadowParam ==
    <<VarDeclaration(1, FALSE, "p", Integer32, NumericLiteral(0, <<1>>)),
      FunctionDefinition(5, "f", <<Param("p", Integer32)>>, Integer32,
                         <<Return(3, Identifier(2, "p"))>>)>>

\* -> f(p as i32) => i32 { p = 2   return p }
ParamAssign ==
    <<FunctionDefinition(6, "f", <<Param("p", Integer32)>>, Integer32,
        <<AssignmentExpr(2, Identifier(0, "p"), NumericLiteral(1, <<2>>)),
          Return(4, Identifier(3, "p"))>>)>>

\* bind v as i32 = 1   match 1 { 1 => { v } }
MatchLoad ==
    <<VarDeclaration(1, FALSE, "v", Integer32, NumericLiteral(0, <<1>>)),
      MatchExpr(10, NumericLiteral(2, <<1>>),
                <<<<NumericLiteral(3, <<1>>), Block(5, <<Identifier(4, "v")>>)>>>>)>>

\* bind x as i32 = 1   bind x as i32 = 2   x
Rebind ==
    <<VarDeclaration(1, FALSE, "x", Integer32, NumericLiteral(0, <<1>>)),
      VarDeclaration(3, FALSE, "x", Integer32, NumericLiteral(2, <<2>>)),
      Identifier(4, "x")>>

MiscPrograms ==
    { <<TypeCast(1, Leaf(0, a), t)>> : a \in Atoms, t \in DeclTypes }
    \cup { <<BinaryExpr(2, "+", Leaf(0, a), Leaf(1, b))>> : a \in Atoms, b \in Atoms }
    \cup { <<Comparator(2, "<", Leaf(0, a), Leaf(1, b))>> : a \in Atoms, b \in Atoms }
    \cup { <<VarDeclaration(1, m, "x", t, Leaf(0, a)),
             AssignmentExpr(4, Identifier(2, "x"), Leaf(3, b))>> :
             m \in BOOLEAN, t \in {Integer32, Integer64, String}, a \in Atoms, b \in Atoms }
    \cup { <<VarDeclaration(1, TRUE, "x", Integer32, NumericLiteral(0, <<1>>)),
             WhileStmt(9, Comparator(4, "<", Identifier(2, "x"), NumericLiteral(3, <<3>>)),
               <<AssignmentExpr(8, Identifier(5, "x"),
                    BinaryExpr(7, "+", Identifier(6, "x"), Leaf(10, a)))>>)>> : a \in Atoms }
    \cup { <<IfStmt(3, Comparator(2, "==", Leaf(0, a), Leaf(1, a)),
               <<VarDeclaration(5, FALSE, "y", Infer, Leaf(4, b))>>),
             Identifier(6, "y")>> : a \in Atoms, b \in Atoms }
    \cup { <<NullishCoalescing(2, Leaf(0, a), Leaf(1, b))>> : a \in Atoms, b \in Atoms }
    \cup { <<MemberExpr(2, Leaf(0, a), NumericLiteral(1, <<k>>))>> :
             a \in Atoms, k \in {0, 7} }
    \cup { <<Block(2, <<Leaf(0, a), Leaf(1, b)>>)>> : a \in Atoms, b \in Atoms }
    \cup { <<VarDeclaration(1, FALSE, "s", String, StringLiteral(0)),
             BinaryExpr(4, "+", Identifier(2, "s"), Identifier(3, "s"))>> }
    \cup { <<Iterator(2, ListLiteral(1, <<NumericLiteral(0, <<1>>)>>), << >>)>>,
           <<ObjectLiteral(0)>>,
           <<VarDeclaration(1, FALSE, "n", Infer, NullLiteral(0))>>,
           <<NoOpNode(0), NumericLiteral(1, <<1>>)>>,
           <<FunctionDefinition(1, "f", << >>, Integer32, <<NoOpNode(NoId)>>)>>,
           BindSum, ShadowParam, Rebind, ParamAssign, MatchLoad }

\* programs that name the foreign module "@/io"
ExternPrograms ==
    { <<CallExpr(0, Identifier(1, "vel_print"), Leaves(1, as))>> :
          as \in SeqsUpTo(Atoms, MaxArgs) }
    \cup { <<NumericLiteral(0, <<4,2>>)>>,
           <<VarDeclaration(3, FALSE, "r", Infer,
               CallExpr(2, Identifier(0, "vel_write"), <<StringLiteral(1)>>))>> }

\* a program that names the foreign module "@/log", whose descriptor spells
\* its function Vel_Log:   vel_log("s")
LogProgram == <<CallExpr(0, Identifier(1, "vel_log"), <<StringLiteral(2)>>)>>

ExternalsOf(p) ==
    IF p \in ExternPrograms THEN <<"@/io">>
    ELSE IF p = LogProgram THEN <<"@/log">>
    ELSE << >>

Programs ==
    ExternPrograms \cup {LogProgram} \cup LiteralPrograms \cup ListPrograms
    \cup CallPrograms \cup FnPrograms
    \cup MatchPrograms \cup MiscPrograms

-----------------------------------------------------------------------------
(* IRGenerator (codegen/codegen.rs).  LLVM types and values are kept to    *)
(* what the generator itself distinguishes: integer (with bit width) or    *)
(* pointer, where a value came from, and the digits of a constant.         *)

CF_DEBUG_MODE == FALSE

\* the builds of the generator: the constant as it stands, and a debug build
DebugModes == {CF_DEBUG_MODE, TRUE}

\* `let x = v; F(x)': v is computed once and named
Bind(v, F(_)) == F(v)

IntType(w) == [k |-> "int", w |-> w]
PtrType == [k |-> "ptr", w |-> 0]

IntValue(w, o, c) == [k |-> "int", w |-> w, o |-> o, c |-> c]
PointerValue(o) == [k |-> "ptr", w |-> 0, o |-> o, c |-> << >>]
\* Option<BasicValueEnum>::None
NoValue == [k |-> "none", w |-> 0, o |-> "none", c |-> << >>]
is_some(v) == v.k # "none"
get_type(v) == [k |-> v.k, w |-> v.w]
const_zero(ty) ==
    IF ty.k = "int" THEN IntValue(ty.w, "const", <<0>>) ELSE PointerValue("null")
ValueOf(ty, o) == [k |-> ty.k, w |-> ty.w, o |-> o, c |-> << >>]

\* an instruction: opcode, value operands, block operands
Inst(op, args, to) == [op |-> op, args |-> args, to |-> to]
TerminatorOps == {"ret", "br", "condbr", "switch", "unreachable"}

\* IRGenerator::new.  `halt' is "none" while the generator runs, "exit"
\* after process::exit(1), "panic" after a Rust panic; once it is set no
\* later statement has an effect.  `hash_rev' is the iteration order of the
\* usage HashMap drained by exit_scope; `events' records, in order, each
\* foreign symbol declaration, each archive build and each call that reached
\* the test of the callee's returns.  `folds' is whether the builder's
\* constant folder answers an integer operation over constant operands with a
\* constant instead of inserting an instruction (the builder is LLVM's, which
\* is not part of the repository).  `bindings' is the history of the bindings
\* made (by declare_variable or as a parameter), each with the uses of the
\* variable it stands for, and `exits' the span of warnings of each exit_scope.
NewGenerator(coerce, tt, exts, rev, folds, debug_mode) ==
    [type_table |-> tt, folds |-> folds, debug_mode |-> debug_mode, checker |-> NewChecker, variables |-> << >>,
     coerce_types |-> coerce, externals |-> exts,
     external_names_individual |-> << >>, external_files |-> << >>,
     error_stack |-> << >>, warning_stack |-> << >>, scope_stack |-> << >>,
     functions |-> << >>, blocks |-> << >>, insert_block |-> 0,
     globals |-> << >>, events |-> << >>, bindings |-> << >>, exits |-> << >>,
     defs |-> << >>,
     result |-> "none",
     halt |-> "none", hash_rev |-> rev]

Live(g) == g.halt = "none"

ir_panic(g) == IF Live(g) THEN [g EXCEPT !.halt = "panic"] ELSE g

\* what generate_ir_for_expr hands back: the generator and the value
GR(g, v) == [g |-> g, v |-> v]

compiler_error(g, message, exit_immediately) ==
    IF ~Live(g) THEN g
    ELSE [g EXCEPT !.error_stack = Append(@, message),
                   !.halt = IF exit_immediately THEN "exit" ELSE "none"]

compiler_warning(g, message) ==
    IF ~Live(g) THEN g ELSE [g EXCEPT !.warning_stack = Append(@, message)]

ir_enter_scope(g) ==
    IF ~Live(g) THEN g
    ELSE [g EXCEPT !.variables = Append(@, EmptyMap),
                   !.scope_stack = Append(@, EmptyMap),
                   !.checker = enter_scope(@)]

\* some enumeration of a finite set, and its reverse
SetToSeq(S) ==
    CHOOSE s \in [1..Cardinality(S) -> S] :
        \A i, j \in 1..Cardinality(S) : i # j => s[i] # s[j]
Reverse(s) == [i \in 1..Len(s) |-> s[Len(s) + 1 - i]]
IterationOrder(S, rev) == IF rev THEN Reverse(SetToSeq(S)) ELSE SetToSeq(S)

\* the two warnings exit_scope may emit for one binding
usage_warning(g, name, u) ==
    Bind(IF ~u.was_read
         THEN compiler_warning(g, [kind |-> "never_read", name |-> name])
         ELSE g, LAMBDA g1 :
         IF u.is_mut /\ ~u.was_written
         THEN compiler_warning(g1, [kind |-> "never_mutated", name |-> name])
         ELSE g1)

RECURSIVE usage_warnings(_, _, _, _)
usage_warnings(g, usage, names, i) ==
    IF i > Len(names) THEN g
    ELSE usage_warnings(usage_warning(g, names[i], usage[names[i]]),
                        usage, names, i + 1)

Pop(s) == IF Len(s) = 0 THEN s ELSE SubSeq(s, 1, Len(s) - 1)

\* history: the frame on top of `g' is gone in `g3'; its bindings are closed
\* and the warnings of this exit are those after the ones `g' had
log_exit(g, g3) ==
    [g3 EXCEPT
       !.exits = Append(@, [w0 |-> Len(g.warning_stack), w1 |-> Len(g3.warning_stack)]),
       !.bindings = [i \in DOMAIN @ |->
                        IF @[i].exit = 0 /\ @[i].frame = Len(g.variables)
                        THEN [@[i] EXCEPT !.exit = Len(g3.exits) + 1]
                        ELSE @[i]]]

ir_exit_scope(g) ==
    IF ~Live(g) THEN g
    ELSE IF Len(g.scope_stack) = 0
    THEN ir_panic([g EXCEPT !.variables = Pop(@)])
    ELSE Bind(usage_warnings(
                  [g EXCEPT !.variables = Pop(@), !.scope_stack = Pop(@)],
                  g.scope_stack[Len(g.scope_stack)],
                  IterationOrder(DOMAIN g.scope_stack[Len(g.scope_stack)], g.hash_rev),
                  1), LAMBDA g3 :
              IF Len(g3.checker.scopes) = 0 THEN ir_panic(log_exit(g, g3))
              ELSE [log_exit(g, g3) EXCEPT !.checker = exit_scope(@)])

RECURSIVE usage_scope_of(_, _, _)
usage_scope_of(ss, name, i) ==
    IF i = 0 THEN 0
    ELSE IF name \in DOMAIN ss[i] THEN i
    ELSE usage_scope_of(ss, name, i - 1)

mark_usage(g, name, i, is_write) ==
    IF ~Live(g) \/ i = 0 THEN g
    ELSE IF is_write THEN [g EXCEPT !.scope_stack[i][name].was_written = TRUE]
    ELSE [g EXCEPT !.scope_stack[i][name].was_read = TRUE]

\* history: the variable `name' resolves to is read or written
log_use(g, name, is_write) ==
    IF ~Live(g) \/ usage_scope_of(g.variables, name, Len(g.variables)) = 0 THEN g
    ELSE IF is_write
    THEN [g EXCEPT !.bindings[g.variables[usage_scope_of(g.variables, name,
                                  Len(g.variables))][name].bid].written = TRUE]
    ELSE [g EXCEPT !.bindings[g.variables[usage_scope_of(g.variables, name,
                                  Len(g.variables))][name].bid].read = TRUE]

mark_read(g, name) ==
    mark_usage(log_use(g, name, FALSE), name,
               usage_scope_of(g.scope_stack, name, Len(g.scope_stack)), FALSE)

mark_written(g, name) ==
    mark_usage(log_use(g, name, TRUE), name,
               usage_scope_of(g.scope_stack, name, Len(g.scope_stack)), TRUE)

\* `bid' is the place of the variable's binding in the `bindings' history
IRVar(ptr, ty, mutable) == [ptr |-> ptr, ty |-> ty, mutable |-> mutable, bid |-> 0]

\* history: a binding of `name' is made in the top frame
log_binding(g, name, mutable, declared) ==
    [g EXCEPT !.bindings = Append(@, [name |-> name, is_mut |-> mutable,
                                      declared |-> declared, frame |-> Len(g.variables),
                                      read |-> FALSE, written |-> FALSE, exit |-> 0])]

declare_variable(g, name, ptr, ty, mutable) ==
    IF ~Live(g) THEN g
    ELSE IF Len(g.variables) > 0
    THEN IF Len(g.scope_stack) = 0 THEN ir_panic(g)
         ELSE [log_binding(g, name, mutable, TRUE) EXCEPT
                 !.variables[Len(g.variables)] =
                     MapInsert(@, name, [IRVar(ptr, ty, mutable) EXCEPT
                                            !.bid = Len(g.bindings) + 1]),
                 !.scope_stack[Len(g.scope_stack)] =
                     MapInsert(@, name, [is_mut |-> mutable, was_read |-> FALSE,
                                         was_written |-> FALSE])]
    ELSE compiler_error(g, "no_scope", FALSE)

\* Option<IRVar>: 0 for None, else the index of the frame holding the name
get_variable(g, name) == usage_scope_of(g.variables, name, Len(g.variables))

\* Module::get_function / Module::add_function.  LLVM renames a second
\* function of the same name, so a symbol is the name and a serial number.
\* get_function gives 0 for None, else the index of the function.
get_function(g, name) ==
    IF \E i \in 1..Len(g.functions) : g.functions[i].sym = <<name, 0>>
    THEN CHOOSE i \in 1..Len(g.functions) : g.functions[i].sym = <<name, 0>>
    ELSE 0

next_symbol(g, name) ==
    <<name, Cardinality({ i \in 1..Len(g.functions) : g.functions[i].sym[1] = name })>>

add_function(g, name, ret, params, linkage) ==
    IF ~Live(g) THEN g
    ELSE [g EXCEPT !.functions =
             Append(@, [sym |-> next_symbol(g, name), ret |-> ret,
                        params |-> params, linkage |-> linkage])]

\* Context::append_basic_block: the new block is the last of g.blocks
append_basic_block(g, fn, label) ==
    IF ~Live(g) THEN g
    ELSE [g EXCEPT !.blocks = Append(@, [fn |-> fn, label |-> label, insts |-> << >>])]

position_at_end(g, b) ==
    IF ~Live(g) THEN g ELSE [g EXCEPT !.insert_block = b]

\* Builder::build_*(..).unwrap(): Err(UnsetPosition) without an insert block
emit(g, inst) ==
    IF ~Live(g) THEN g
    ELSE IF g.insert_block = 0 THEN ir_panic(g)
    ELSE [g EXCEPT !.blocks[g.insert_block].insts = Append(@, inst)]

\* builder.get_insert_block().unwrap().get_parent().unwrap()
parent_func(g) ==
    IF g.insert_block = 0 THEN <<"", 0>> ELSE g.blocks[g.insert_block].fn

get_or_declare_external(g, external) ==
    IF ~Live(g) THEN g
    ELSE IF get_function(g, external) # 0 THEN g
    ELSE IF Len(g.checker.scopes) = 0 THEN ir_panic(g)
    ELSE add_function(
             [g EXCEPT !.checker = scope_insert(@, external, FunctionT(<< >>, Void)),
                       !.events = Append(@, <<"declare", external>>)],
             external, IntType(64), <<PtrType>>, "External")

\* the closure `precedence' of coerce_ints_to_common_type: the rank, and
\* the error it records for a width it does not know
precedence(w) ==
    CASE w = 8 -> 0 [] w = 16 -> 1 [] w = 32 -> 2 [] w = 64 -> 3 [] OTHER -> 5

precedence_error(g, w) ==
    IF w \in {8, 16, 32, 64} THEN g
    ELSE compiler_error(g, "unsupported_int_width", FALSE)

common_width(l, r) == IF precedence(l) >= precedence(r) THEN l ELSE r

\* Builder::build_int_*(..).unwrap(): the instruction is inserted, unless
\* every operand is a constant and the builder folds
IsConst(v) == v.o \in {"const", "folded"}
AllConst(args) == \A i \in DOMAIN args : IsConst(args[i])

fold_or_emit(g, inst) ==
    IF ~Live(g) THEN g
    ELSE IF g.insert_block = 0 THEN ir_panic(g)
    ELSE IF g.folds /\ AllConst(inst.args) THEN g
    ELSE emit(g, inst)

\* the value the builder hands back for the instruction with result `v'
built(g, args, v) ==
    IF g.folds /\ AllConst(args) THEN IntValue(v.w, "folded", << >>) ELSE v

int_cast(g, v, w) ==
    IF v.w # w THEN fold_or_emit(g, Inst("int_cast", <<v>>, << >>)) ELSE g

casted(g, v, w, name) ==
    IF v.w # w THEN built(g, <<v>>, IntValue(w, name, << >>)) ELSE v

\* returns the state and the pair (left, right)
coerce_ints_to_common_type(g, left, right) ==
    IF ~g.coerce_types \/ left.w = right.w
    THEN [g |-> g, l |-> left, r |-> right]
    ELSE [g |-> int_cast(int_cast(
                    precedence_error(precedence_error(g, left.w), right.w),
                    left, common_width(left.w, right.w)),
                    right, common_width(left.w, right.w)),
          l |-> casted(g, left, common_width(left.w, right.w), "cast_l"),
          r |-> casted(g, right, common_width(left.w, right.w), "cast_r")]

enforce_type_equality(g, left, right) ==
    IF get_type(left) # get_type(right)
    THEN compiler_error(g, "type_equality", FALSE) ELSE g

\* t_to_llvm_type is split into the type it returns and the error it records
llvm_type(t) ==
    CASE t.tag = "Integer8" -> IntType(8)
      [] t.tag = "Integer16" -> IntType(16)
      [] t.tag = "Integer32" -> IntType(32)
      [] t.tag = "Integer64" -> IntType(64)
      [] t.tag = "Integer128" -> IntType(128)
      [] t.tag = "Boolean" -> IntType(1)
      [] t.tag = "String" -> PtrType
      [] t.tag = "Array" -> PtrType
      [] OTHER -> IntType(32)

MappedTags ==
    {"Integer8", "Integer16", "Integer32", "Integer64", "Integer128", "Boolean",
     "String", "Array"}

t_to_llvm_type(g, t) ==
    IF t.tag \in MappedTags THEN g
    ELSE IF t.tag = "Infer" THEN compiler_error(g, "infer_in_codegen", TRUE)
    ELSE compiler_error(g, "unmapped_type", FALSE)

\* bb.get_terminator(): the last instruction, if it is a terminator
get_terminator(b) ==
    IF Len(b.insts) > 0 /\ b.insts[Len(b.insts)].op \in TerminatorOps
    THEN b.insts[Len(b.insts)] ELSE Inst("none", << >>, << >>)

ret_has_value(term) == Len(term.args) > 0
is_undef(v) == v.o = "undef"

\* the loop over func.get_basic_blocks() of the CallExpr arm
has_valid_return(g, sym) ==
    \E i \in 1..Len(g.blocks) :
        /\ g.blocks[i].fn = sym
        /\ get_terminator(g.blocks[i]).op = "ret"
        /\ ret_has_value(get_terminator(g.blocks[i]))
        /\ ~is_undef(get_terminator(g.blocks[i]).args[1])

-----------------------------------------------------------------------------
(* IRGenerator::generate_ir_for_expr, one operator per arm of `match node`. *)
(* Each returns GR(state, value).  A loop of the code is a RECURSIVE        *)
(* operator over the index.                                                *)

RECURSIVE generate_ir_for_expr(_, _)
RECURSIVE gen_stmts(_, _, _, _)
RECURSIVE gen_call_args(_, _, _, _)
RECURSIVE gen_fn_body(_, _, _, _, _)
RECURSIVE gen_list_elems(_, _, _, _)
RECURSIVE gen_match_bodies(_, _, _, _, _, _)

\* x.unwrap() / x.expect(..) on an Option value
unwrap(g, v) == IF is_some(v) THEN g ELSE ir_panic(g)
\* x.unwrap().into_int_value() / x.unwrap().into_pointer_value()
unwrap_into(g, v, k) == IF v.k = k THEN g ELSE ir_panic(g)
\* builder.get_insert_block().unwrap()
need_insert_block(g) == IF g.insert_block = 0 THEN ir_panic(g) ELSE g

\* for stmt in body { last_val = self.generate_ir_for_expr(stmt); }
gen_stmts(g, body, i, last) ==
    IF i > Len(body) THEN GR(g, last)
    ELSE Bind(generate_ir_for_expr(g, body[i]), LAMBDA r :
              gen_stmts(r.g, body, i + 1, r.v))

\* args.iter().map(|arg| self.generate_ir_for_expr(arg).unwrap().into())
gen_call_args(g, args, i, acc) ==
    IF i > Len(args) THEN [g |-> g, vs |-> acc]
    ELSE Bind(generate_ir_for_expr(g, args[i]), LAMBDA r :
              gen_call_args(unwrap(r.g, r.v), args, i + 1, Append(acc, r.v)))

gen_NumericLiteral(g, n) ==
    IF n.id = NoId \/ n.id \notin DOMAIN g.type_table THEN GR(ir_panic(g), NoValue)
    ELSE IF ~parse_usize_ok(n.literal_value) THEN GR(ir_panic(g), NoValue)
    ELSE IF llvm_type(g.type_table[n.id]).k # "int"
    THEN GR(ir_panic(t_to_llvm_type(g, g.type_table[n.id])), NoValue)
    ELSE GR(t_to_llvm_type(g, g.type_table[n.id]),
            IntValue(llvm_type(g.type_table[n.id]).w, "const", n.literal_value))

gen_MemberExpr(g, mem) ==
    Bind(generate_ir_for_expr(g, mem.object), LAMBDA o :
    Bind(generate_ir_for_expr(unwrap_into(o.g, o.v, "ptr"), mem.property), LAMBDA p :
         GR(emit(emit(unwrap_into(p.g, p.v, "int"),
                      Inst("gep", <<o.v, p.v>>, << >>)),
                 Inst("load", <<PointerValue("elem_ptr")>>, << >>)),
            IntValue(32, "elem_val", << >>))))

\* the three blocks of an if / while, and the branch into the first
open_blocks(g, l1, l2, l3) ==
    position_at_end(
        emit(append_basic_block(append_basic_block(append_basic_block(
                 need_insert_block(g), parent_func(g), l1), parent_func(g), l2),
                 parent_func(g), l3),
             Inst("br", << >>, <<Len(g.blocks) + 1>>)),
        Len(g.blocks) + 1)

gen_IfStmt(g, ifs) ==
    Bind(generate_ir_for_expr(open_blocks(g, "ifcond", "ifbody", "ifend"),
                              ifs.condition), LAMBDA c :
    Bind(gen_stmts(position_at_end(
                       emit(unwrap_into(c.g, c.v, "int"),
                            Inst("condbr", <<c.v>>,
                                 <<Len(g.blocks) + 2, Len(g.blocks) + 3>>)),
                       Len(g.blocks) + 2),
                   ifs.body, 1, NoValue), LAMBDA b :
         GR(position_at_end(emit(b.g, Inst("br", << >>, <<Len(g.blocks) + 3>>)),
                            Len(g.blocks) + 3),
            NoValue)))

cast_int(g, v, ty) ==
    IF ty = get_type(v) THEN GR(g, v)
    ELSE IF ty.k = "int"
    THEN GR(fold_or_emit(g, Inst(IF ty.w > v.w THEN "sext" ELSE "trunc", <<v>>, << >>)),
            built(g, <<v>>, IntValue(ty.w, "cast", << >>)))
    ELSE GR(compiler_error(g, "cast_int_to_non_int", FALSE), v)

gen_TypeCast(g, cast) ==
    Bind(generate_ir_for_expr(g, cast.left), LAMBDA e :
         IF e.v.k = "int"
         THEN cast_int(t_to_llvm_type(e.g, cast.target_type), e.v,
                       llvm_type(cast.target_type))
         ELSE GR(compiler_error(t_to_llvm_type(unwrap(e.g, e.v), cast.target_type),
                                "cast_non_int", TRUE),
                 NoValue))

gen_Return(g, r) ==
    Bind(generate_ir_for_expr(g, r.return_statement), LAMBDA sub :
         GR(emit(unwrap(sub.g, sub.v), Inst("ret", <<sub.v>>, << >>)), NoValue))

\* fd.params.iter().map(|param| self.t_to_llvm_type(&param.1).into())
RECURSIVE param_types(_, _, _)
param_types(g, params, i) ==
    IF i > Len(params) THEN g
    ELSE param_types(t_to_llvm_type(g, params[i].ty), params, i + 1)

\* self.variables.last_mut().unwrap().insert(name, IRVar { .. })
insert_variable(g, name, var) ==
    IF ~Live(g) THEN g
    ELSE IF Len(g.variables) = 0 THEN ir_panic(g)
    ELSE [log_binding(g, name, var.mutable, FALSE) EXCEPT
            !.variables[Len(g.variables)] =
                MapInsert(@, name, [var EXCEPT !.bid = Len(g.bindings) + 1])]

\* the `Set params' loop
RECURSIVE set_params(_, _, _)
set_params(g, params, i) ==
    IF i > Len(params) THEN g
    ELSE set_params(
             insert_variable(
                 t_to_llvm_type(
                     emit(emit(g, Inst("alloca",
                                       <<ValueOf(llvm_type(params[i].ty), params[i].name)>>,
                                       << >>)),
                          Inst("store", <<PointerValue(params[i].name),
                                          ValueOf(llvm_type(params[i].ty), "param")>>,
                               << >>)),
                     params[i].ty),
                 params[i].name,
                 IRVar(params[i].name, llvm_type(params[i].ty), FALSE)),
             params, i + 1)

\* the body loop of a function definition, which stops after the first
\* direct `return'
gen_fn_body(g, body, i, valid_nodes, last_val) ==
    IF i > Len(body) THEN [g |-> g, valid_nodes |-> valid_nodes, last_val |-> last_val]
    ELSE Bind(generate_ir_for_expr(g, body[i]), LAMBDA r :
              IF body[i].kind = "Return"
              THEN [g |-> r.g,
                    valid_nodes |-> valid_nodes + 1 + (IF is_some(r.v) THEN 1 ELSE 0),
                    last_val |-> last_val]
              ELSE gen_fn_body(r.g, body, i + 1,
                               valid_nodes + (IF is_some(r.v) THEN 1 ELSE 0), r.v))

\* main_fn.get_first_basic_block(); 0 for None
first_basic_block(g, sym) ==
    IF \E i \in 1..Len(g.blocks) : g.blocks[i].fn = sym
    THEN CHOOSE i \in 1..Len(g.blocks) :
             /\ g.blocks[i].fn = sym
             /\ \A j \in 1..(i - 1) : g.blocks[j].fn # sym
    ELSE 0

\* position the builder at the end of main's entry block
back_to_main(g) ==
    IF get_function(g, "main") = 0 \/ first_basic_block(g, <<"main", 0>>) = 0
    THEN ir_panic(g)
    ELSE position_at_end(g, first_basic_block(g, <<"main", 0>>))

unreachable_function(g, name) ==
    emit(compiler_warning(g, [kind |-> "unreachable_function", name |-> name]),
         Inst("unreachable", << >>, << >>))

\* what get_variable(name) returns, as the place of the binding in the
\* `bindings' history; 0 for None
resolved(g, name) ==
    IF get_variable(g, name) = 0 THEN 0
    ELSE g.variables[get_variable(g, name)][name].bid

\* history: the definition `fd' was lowered from `g' to `g1'; what each of
\* its parameter names resolved to before and resolves to after
log_definition(g, g1, fd) ==
    IF ~Live(g) \/ ~Live(g1) THEN g1
    ELSE [g1 EXCEPT !.defs = Append(@,
             [name |-> fd.name,
              before |-> [i \in DOMAIN fd.params |-> resolved(g, fd.params[i].name)],
              after |-> [i \in DOMAIN fd.params |-> resolved(g1, fd.params[i].name)]])]

gen_FunctionDefinition(g, fd) ==
    Bind(gen_fn_body(
             ir_enter_scope(
                 set_params(
                     position_at_end(
                         append_basic_block(
                             add_function(
                                 param_types(t_to_llvm_type(g, fd.return_type),
                                             fd.params, 1),
                                 fd.name, llvm_type(fd.return_type),
                                 [i \in 1..Len(fd.params) |-> llvm_type(fd.params[i].ty)],
                                 "Internal"),
                             next_symbol(g, fd.name), "entry"),
                         Len(g.blocks) + 1),
                     fd.params, 1)),
             fd.body, 1, 0, NoValue), LAMBDA b :
         GR(log_definition(g,
                back_to_main(ir_exit_scope(
                    IF b.valid_nodes = 0 THEN unreachable_function(b.g, fd.name)
                    ELSE b.g)),
                fd),
            b.last_val))

\* the test of the left operand, and the three blocks
nullish_open(g, fn, lhs) ==
    position_at_end(
        emit(append_basic_block(append_basic_block(append_basic_block(
                 IF lhs.k = "int"
                 THEN emit(g, Inst("icmp", <<lhs, const_zero(get_type(lhs))>>, << >>))
                 ELSE ir_panic(g),
                 fn, "ncthen"), fn, "ncelse"), fn, "ncend"),
             Inst("condbr", <<IntValue(1, "truthycmp", << >>)>>,
                  <<Len(g.blocks) + 1, Len(g.blocks) + 2>>)),
        Len(g.blocks) + 1)

gen_NullishCoalescing(g, nc) ==
    Bind(generate_ir_for_expr(need_insert_block(g), nc.left), LAMBDA l :
    Bind(generate_ir_for_expr(
             position_at_end(
                 emit(nullish_open(unwrap(l.g, l.v), parent_func(g), l.v),
                      Inst("br", << >>, <<Len(l.g.blocks) + 3>>)),
                 Len(l.g.blocks) + 2),
             nc.right), LAMBDA r :
    Bind(emit(unwrap(r.g, r.v), Inst("br", << >>, <<Len(l.g.blocks) + 3>>)), LAMBDA g6 :
         GR(emit(position_at_end(g6, Len(l.g.blocks) + 3),
                 Inst("phi", <<l.v, r.v>>, <<Len(l.g.blocks) + 1, g6.insert_block>>)),
            ValueOf(get_type(l.v), "null_coalesce_result")))))

gen_Block(g, bl) == gen_stmts(g, bl.body, 1, NoValue)

BinaryOps == {"+", "-", "*", "/"}

gen_BinaryExpr(g, bin_op) ==
    Bind(generate_ir_for_expr(g, bin_op.left), LAMBDA l :
    Bind(generate_ir_for_expr(l.g, bin_op.right), LAMBDA r :
         IF l.v.k = "int" /\ r.v.k = "int"
         THEN Bind(coerce_ints_to_common_type(r.g, l.v, r.v), LAMBDA co :
                   IF bin_op.op \in BinaryOps
                   THEN GR(fold_or_emit(co.g, Inst(bin_op.op, <<co.l, co.r>>, << >>)),
                           built(co.g, <<co.l, co.r>>,
                                 IntValue(co.l.w, bin_op.op, << >>)))
                   ELSE GR(ir_panic(co.g), NoValue))
         \* the message is formatted from left.unwrap() and right.unwrap()
         \* before compiler_error is entered
         ELSE GR(compiler_error(unwrap(unwrap(r.g, l.v), r.v), "binary_non_int", FALSE),
                 l.v)))

gen_VarDeclaration(g, vdecl) ==
    IF vdecl.id = NoId \/ vdecl.id \notin DOMAIN g.type_table
    THEN GR(ir_panic(g), NoValue)
    ELSE Bind(generate_ir_for_expr(t_to_llvm_type(g, g.type_table[vdecl.id]),
                                   vdecl.var_value), LAMBDA v :
              GR(emit(declare_variable(
                          emit(v.g, Inst("alloca",
                                         <<ValueOf(llvm_type(g.type_table[vdecl.id]),
                                                   vdecl.var_identifier)>>, << >>)),
                          vdecl.var_identifier, vdecl.var_identifier,
                          llvm_type(g.type_table[vdecl.id]), vdecl.is_mutable),
                      Inst("store",
                           <<PointerValue(vdecl.var_identifier),
                             IF is_some(v.v) THEN v.v
                             ELSE const_zero(llvm_type(g.type_table[vdecl.id]))>>,
                           << >>)),
                 NoValue))

load_variable(g, name, var) ==
    GR(emit(mark_read(g, name), Inst("load", <<PointerValue(var.ptr)>>, << >>)),
       ValueOf(var.ty, name))

gen_Identifier(g, ident) ==
    IF get_variable(g, ident.identifier_name) # 0
    THEN load_variable(g, ident.identifier_name,
             g.variables[get_variable(g, ident.identifier_name)][ident.identifier_name])
    ELSE IF ident.identifier_name = "__CALL_STACK"
    THEN IF ~g.debug_mode THEN GR(g, NoValue)
         ELSE GR(emit(g, Inst("print_frames", << >>, << >>)),
                 PointerValue("callstack_done"))
    ELSE GR(compiler_error(g, "binding_not_found", FALSE), NoValue)

InSeq(x, s) == \E i \in 1..Len(s) : s[i] = x

CallInst(callee, args) == [op |-> "call", args |-> args, to |-> << >>, callee |-> callee]

push_frame(g) == IF g.debug_mode THEN emit(g, Inst("push_frame", << >>, << >>)) ELSE g
pop_frame(g) == IF g.debug_mode THEN emit(g, Inst("pop_frame", << >>, << >>)) ELSE g

\* history: the call of `name' reached the test of has_valid_return, which
\* gave `ok'
log_call(g, name, ok) ==
    IF ~Live(g) THEN g ELSE [g EXCEPT !.events = Append(@, <<"call", name, ok>>)]

\* a call lowering that does not look at the callee's blocks
call_known_unchecked(g, name, func, cexpr) ==
    Bind(gen_call_args(
             log_call(g, name,
                      InSeq(name, g.external_names_individual)
                        \/ has_valid_return(g, func.sym)),
             cexpr.args, 1, << >>), LAMBDA a :
         GR(pop_frame(emit(a.g, CallInst(name, a.vs))), ValueOf(func.ret, "calltmp")))

\* the call of a function the module knows
call_known(g, name, func, cexpr) ==
    Bind(gen_call_args(
             IF InSeq(name, g.external_names_individual) \/ has_valid_return(g, func.sym)
             THEN log_call(g, name, TRUE)
             ELSE compiler_error(log_call(g, name, FALSE), "no_valid_return", TRUE),
             cexpr.args, 1, << >>), LAMBDA a :
         GR(pop_frame(emit(a.g, CallInst(name, a.vs))), ValueOf(func.ret, "calltmp")))

\* the call of a foreign symbol that is not declared yet
\* str::to_lowercase over the names in use
to_lowercase(name) == IF name = "Vel_Log" THEN "vel_log" ELSE name

call_external(g, name, cexpr) ==
    Bind(gen_call_args(get_or_declare_external(g, name), cexpr.args, 1, << >>), LAMBDA a :
         GR(emit(a.g, CallInst(name, a.vs)), NoValue))

gen_CallExpr(g, cexpr) ==
    IF cexpr.caller.kind # "Identifier" THEN GR(ir_panic(g), NoValue)
    ELSE IF get_function(g, cexpr.caller.identifier_name) # 0
    THEN call_known(push_frame(g), cexpr.caller.identifier_name,
                    g.functions[get_function(g, cexpr.caller.identifier_name)], cexpr)
    ELSE IF \E i \in DOMAIN g.external_names_individual :
                to_lowercase(g.external_names_individual[i]) = cexpr.caller.identifier_name
    THEN call_external(push_frame(g), cexpr.caller.identifier_name, cexpr)
    ELSE GR(ir_panic(push_frame(g)), NoValue)

gen_WhileStmt(g, ws) ==
    Bind(generate_ir_for_expr(open_blocks(g, "wcnd", "wbdy", "wend"),
                              ws.condition), LAMBDA c :
    Bind(gen_stmts(ir_enter_scope(position_at_end(
                       emit(unwrap_into(c.g, c.v, "int"),
                            Inst("condbr", <<c.v>>,
                                 <<Len(g.blocks) + 2, Len(g.blocks) + 3>>)),
                       Len(g.blocks) + 2)),
                   ws.body, 1, NoValue), LAMBDA b :
         GR(position_at_end(emit(ir_exit_scope(b.g),
                                 Inst("br", << >>, <<Len(g.blocks) + 1>>)),
                            Len(g.blocks) + 3),
            NoValue)))

ComparatorOps == {"==", "!=", ">", "<"}

gen_Comparator(g, comp) ==
    Bind(generate_ir_for_expr(g, comp.lhs), LAMBDA l :
    Bind(generate_ir_for_expr(l.g, comp.rhs), LAMBDA r :
         IF l.v.k = "int" /\ r.v.k = "int"
         THEN Bind(coerce_ints_to_common_type(r.g, l.v, r.v), LAMBDA co :
                   IF comp.op \in ComparatorOps
                   THEN GR(fold_or_emit(co.g, Inst("icmp", <<co.l, co.r>>, << >>)),
                           built(co.g, <<co.l, co.r>>, IntValue(1, "icmp", << >>)))
                   ELSE GR(ir_panic(co.g), NoValue))
         ELSE GR(ir_panic(r.g), NoValue)))

\* the element loop of a list literal: `?' leaves the arm with None
gen_list_elems(g, props, i, acc) ==
    IF i > Len(props) THEN [g |-> g, vs |-> acc, none |-> FALSE]
    ELSE Bind(generate_ir_for_expr(g, props[i]), LAMBDA r :
              IF ~is_some(r.v) THEN [g |-> r.g, vs |-> acc, none |-> TRUE]
              ELSE IF r.v.k # "int" THEN [g |-> ir_panic(r.g), vs |-> acc, none |-> TRUE]
              ELSE gen_list_elems(r.g, props, i + 1, Append(acc, r.v)))

add_global(g, init) == IF Live(g) THEN [g EXCEPT !.globals = Append(@, init)] ELSE g

gen_ListLiteral(g, llit) ==
    Bind(gen_list_elems(g, llit.props, 1, << >>), LAMBDA e :
         IF e.none THEN GR(e.g, NoValue)
         ELSE GR(add_global(e.g, e.vs), PointerValue("arr")))

store_to(g, var, value) ==
    GR(emit(unwrap(g, value), Inst("store", <<PointerValue(var.ptr), value>>, << >>)),
       value)

gen_AssignmentExpr(g, a) ==
    IF a.left.kind # "Identifier" THEN GR(ir_panic(g), NoValue)
    ELSE IF get_variable(g, a.left.identifier_name) = 0 THEN GR(ir_panic(g), NoValue)
    ELSE IF ~g.variables[get_variable(g, a.left.identifier_name)]
                        [a.left.identifier_name].mutable
    THEN GR(ir_panic(mark_written(g, a.left.identifier_name)), NoValue)
    ELSE Bind(generate_ir_for_expr(mark_written(g, a.left.identifier_name), a.value),
              LAMBDA r :
              store_to(r.g,
                       g.variables[get_variable(g, a.left.identifier_name)]
                                  [a.left.identifier_name],
                       r.v))

\* the first loop over the arms: one constant and one case block per arm
RECURSIVE match_cases(_, _, _, _)
match_cases(g, arms, fn, i) ==
    IF i > Len(arms) THEN g
    ELSE match_cases(
             IF arms[i][1].kind = "NumericLiteral"
             THEN IF parse_usize_ok(arms[i][1].literal_value)
                  THEN append_basic_block(g, fn, "match_case")
                  ELSE ir_panic(g)
             ELSE ir_panic(g),
             arms, fn, i + 1)

\* the second loop: each arm's body is lowered into its case block
gen_match_bodies(g, arms, first_case, end_block, i, incoming) ==
    IF i > Len(arms) THEN [g |-> g, incoming |-> incoming]
    ELSE Bind(generate_ir_for_expr(
                  ir_enter_scope(position_at_end(g, first_case + i - 1)),
                  arms[i][2]), LAMBDA r :
              gen_match_bodies(
                  emit(ir_exit_scope(r.g), Inst("br", << >>, <<end_block>>)),
                  arms, first_case, end_block, i + 1,
                  Append(incoming, [val |-> r.v, block |-> first_case + i - 1])))

\* end block, case blocks, default block, the switch and the default branch
match_open(g, target, arms, fn, end_block) ==
    emit(position_at_end(
             emit(unwrap_into(
                      append_basic_block(
                          match_cases(append_basic_block(need_insert_block(g), fn,
                                                         "match_end"),
                                      arms, fn, 1),
                          fn, "match_default"),
                      target, "int"),
                  Inst("switch", <<target>>,
                       <<end_block + Len(arms) + 1>>
                           \o [i \in 1..Len(arms) |-> end_block + i])),
             end_block + Len(arms) + 1),
         Inst("br", << >>, <<end_block>>))

\* the phi of the end block and the unwrap of each incoming value
match_phi(g, incoming) ==
    IF \E i \in 1..Len(incoming) : ~is_some(incoming[i].val)
    THEN ir_panic(emit(g, Inst("phi", << >>, << >>)))
    ELSE emit(g, Inst("phi", [i \in 1..Len(incoming) |-> incoming[i].val],
                      [i \in 1..Len(incoming) |-> incoming[i].block]))

gen_MatchExpr(g, mexpr) ==
    Bind(generate_ir_for_expr(g, mexpr.target), LAMBDA t :
    Bind(gen_match_bodies(
             match_open(unwrap(t.g, t.v), t.v, mexpr.arms, parent_func(t.g),
                        Len(t.g.blocks) + 1),
             mexpr.arms, Len(t.g.blocks) + 2, Len(t.g.blocks) + 1, 1,
             <<[val |-> IntValue(32, "const", <<0>>),
                block |-> Len(t.g.blocks) + 2 + Len(mexpr.arms)]>>), LAMBDA b :
         \* &mexpr.arms[0].1
         IF Len(mexpr.arms) = 0
         THEN GR(ir_panic(position_at_end(b.g, Len(t.g.blocks) + 1)), NoValue)
         ELSE Bind(generate_ir_for_expr(position_at_end(b.g, Len(t.g.blocks) + 1),
                                        mexpr.arms[1][2]), LAMBDA p :
                   GR(match_phi(unwrap(p.g, p.v), b.incoming),
                      ValueOf(get_type(p.v), "match_result")))))

generate_ir_for_expr(g, node) ==
    IF ~Live(g) THEN GR(g, NoValue)
    ELSE CASE node.kind = "NoOpNode" -> GR(g, NoValue)
           [] node.kind = "StringLiteral" -> GR(need_insert_block(g), PointerValue("gstring"))
           [] node.kind = "NumericLiteral" -> gen_NumericLiteral(g, node)
           [] node.kind = "BoolLiteral" ->
                GR(g, IntValue(1, "const", IF node.literal_value THEN <<1>> ELSE <<0>>))
           [] node.kind = "MemberExpr" -> gen_MemberExpr(g, node)
           [] node.kind = "IfStmt" -> gen_IfStmt(g, node)
           [] node.kind = "TypeCast" -> gen_TypeCast(g, node)
           [] node.kind = "Return" -> gen_Return(g, node)
           [] node.kind = "FunctionDefinition" -> gen_FunctionDefinition(g, node)
           [] node.kind = "NullishCoalescing" -> gen_NullishCoalescing(g, node)
           [] node.kind = "Block" -> gen_Block(g, node)
           [] node.kind = "BinaryExpr" -> gen_BinaryExpr(g, node)
           [] node.kind = "VarDeclaration" -> gen_VarDeclaration(g, node)
           [] node.kind = "Identifier" -> gen_Identifier(g, node)
           [] node.kind = "CallExpr" -> gen_CallExpr(g, node)
           [] node.kind = "WhileStmt" -> gen_WhileStmt(g, node)
           [] node.kind = "Comparator" -> gen_Comparator(g, node)
           [] node.kind = "ListLiteral" -> gen_ListLiteral(g, node)
           [] node.kind = "AssignmentExpr" -> gen_AssignmentExpr(g, node)
           [] node.kind = "MatchExpr" -> gen_MatchExpr(g, node)
           [] OTHER -> GR(ir_panic(g), NoValue)

-----------------------------------------------------------------------------
(* Foreign modules.  The descriptor of "@/io" lists the two functions its  *)
(* main.rs exports; what the file system and rustc answer is the           *)
(* environment's choice.                                                   *)

Submodule(name, args, return_type) ==
    [name |-> name, args |-> args, return_type |-> return_type]

ExternMeta(ext) ==
    IF ext = "@/io"
    THEN << Submodule("vel_write", <<Param("a", String)>>, NoneT),
            Submodule("vel_print", <<Param("a", String)>>, NoneT) >>
    ELSE IF ext = "@/log"
    THEN << Submodule("Vel_Log", <<Param("a", String)>>, NoneT) >>
    ELSE << >>

FetchOutcomes == {"valid", "invalid", "error"}
RustcOutcomes == {"ok", "fail", "spawn_error"}
Environments == [fetch : FetchOutcomes, rustc : RustcOutcomes, failing : 1..2]

\* Command::new("rustc")...status() and the test of the status
build_archive(g, name, ok) ==
    IF ~Live(g) THEN g
    ELSE IF ok THEN [g EXCEPT !.events = Append(@, <<"build", name>>)]
    ELSE ir_panic(g)

push_external_name(g, name) ==
    [g EXCEPT !.external_names_individual = Append(@, name),
              !.external_files = Append(@, name)]

\* the loop over meta.submod inside `include all externs'
RECURSIVE include_submodules(_, _, _, _)
include_submodules(g, submod, env, i) ==
    IF i > Len(submod) \/ ~Live(g) THEN g
    ELSE include_submodules(
             build_archive(
                 get_or_declare_external(push_external_name(g, submod[i].name),
                                         submod[i].name),
                 submod[i].name, env.rustc = "ok" \/ env.failing # i),
             submod, env, i + 1)

RECURSIVE include_externs(_, _, _)
include_externs(g, env, i) ==
    IF i > Len(g.externals) \/ ~Live(g) THEN g
    ELSE IF env.fetch # "valid" THEN ir_panic(g)
    ELSE include_externs(
             include_submodules(g, ExternMeta(g.externals[i]), env, 1), env, i + 1)

\* the return built at the end of main from the last top-level value
build_main_return(g, last_val) ==
    IF is_some(last_val) /\ last_val.k = "int"
    THEN IF last_val.w = 32 THEN emit(g, Inst("ret", <<last_val>>, << >>))
         ELSE emit(fold_or_emit(g, Inst(IF last_val.w < 32 THEN "zext_ret" ELSE "trunc_ret",
                                        <<last_val>>, << >>)),
                   Inst("ret", <<built(g, <<last_val>>, IntValue(32, "ret_cast", << >>))>>,
                        << >>))
    ELSE emit(g, Inst("ret", <<IntValue(32, "const", <<0>>)>>, << >>))

\* a return value that does not look at the error stack
success_unconditional(g) == "true"

\* if !self.error_stack.is_empty() { ...; return false; } true
success(g) == IF g.error_stack # << >> THEN "false" ELSE "true"

return_success(g) == IF ~Live(g) THEN g ELSE [g EXCEPT !.result = success(g)]

\* main's entry block, from which the top-level nodes are lowered
open_main(g) ==
    position_at_end(
        append_basic_block(add_function(g, "main", IntType(32), << >>, "None"),
                           <<"main", 0>>, "entry"),
        Len(g.blocks) + 1)

generate_ir_for_nodes(g, nodes, env) ==
    Bind(gen_stmts(open_main(include_externs(ir_enter_scope(g), env, 1)),
                   nodes, 1, IntValue(32, "const", <<0>>)), LAMBDA b :
         return_success(build_main_return(ir_exit_scope(b.g), b.v)))

-----------------------------------------------------------------------------
(* TypeChecker::load_externs *)

RECURSIVE load_submodules(_, _, _)
load_submodules(c, submod, i) ==
    IF i > Len(submod) \/ c.halt # "none" THEN c
    ELSE LET return_type == IF submod[i].return_type = NoneT THEN Infer
                            ELSE submod[i].return_type
         IN  load_submodules(
                 scope_insert(c, submod[i].name, FunctionT(submod[i].args, return_type)),
                 submod, i + 1)

RECURSIVE load_externs(_, _, _, _)
load_externs(c, exts, env, i) ==
    IF i > Len(exts) \/ c.halt # "none" THEN c
    ELSE IF env.fetch # "valid" THEN panic(c)
    ELSE load_externs(load_submodules(c, ExternMeta(exts[i]), 1), exts, env, i + 1)

-----------------------------------------------------------------------------
(* The driver: main() of main.rs *)

CurrentChecker == Checker(scopes, errors, type_table, written, returned, "none")

NoGen == [phase |-> "none"]
NoPf == [fn |-> "none"]

\* let mut checker = TypeChecker::new(); checker.enter_scope();
Init ==
    /\ prog \in Programs
    /\ compile_ir \in BOOLEAN
    /\ externals = ExternalsOf(prog)
    /\ pc = "load_externs"
    /\ idx = 1
    /\ scopes = enter_scope(NewChecker).scopes
    /\ errors = << >>
    /\ type_table = EmptyMap
    /\ written = << >>
    /\ returned = << >>
    /\ gen = NoGen
    /\ pf = NoPf

\* checker.load_externs(): the checker binds the functions of the foreign
\* modules the program names before any node is checked (main.rs predates
\* this method and runs programs that name none)
LoadExterns ==
    /\ pc = "load_externs"
    /\ \E env \in Environments :
         LET c == load_externs(CurrentChecker, externals, env, 1)
         IN  /\ scopes' = c.scopes
             /\ pc' = IF c.halt # "none" THEN "panic_load_externs" ELSE "typecheck"
    /\ UNCHANGED <<prog, compile_ir, externals, idx, errors, type_table, written,
                   returned, gen, pf>>

\* for node in &ast { checker.check_expr(node, None); }
CheckTopLevel ==
    /\ pc = "typecheck"
    /\ idx <= Len(prog)
    /\ \E overflow_checks \in BOOLEAN :
       LET r == check_expr(built_with(CurrentChecker, overflow_checks), prog[idx], NoneT)
       IN  /\ scopes' = r.c.scopes
           /\ errors' = r.c.errors
           /\ type_table' = r.c.type_table
           /\ written' = r.c.written
           /\ returned' = r.c.returned
           /\ pc' = IF Halted(r) THEN "panic_check_expr" ELSE pc
           /\ idx' = IF Halted(r) THEN idx ELSE idx + 1
    /\ UNCHANGED <<prog, compile_ir, externals, gen, pf>>

CheckingDone == pc = "typecheck" /\ idx > Len(prog)

\* a driver that never looks at the checker's error list
typecheck_never_failed(errs) == FALSE

\* !checker.errors.is_empty()
typecheck_failed(errs) == errs # << >>

\* if !checker.errors.is_empty() { ...; process::exit(1); }
TypecheckFailed ==
    /\ CheckingDone
    /\ typecheck_failed(errors)
    /\ pc' = "exit_typecheck"
    /\ UNCHANGED <<prog, compile_ir, externals, idx, scopes, errors, type_table,
                   written, returned, gen, pf>>

\* if compile_ir { ... let mut generator = IRGenerator::new(..); ... }
StartCompile ==
    /\ CheckingDone
    /\ ~typecheck_failed(errors)
    /\ compile_ir
    /\ \E do_coerce \in BOOLEAN, rev \in BOOLEAN, folds \in BOOLEAN,
          debug_mode \in DebugModes :
         gen' = NewGenerator(do_coerce, type_table, externals, rev, folds, debug_mode)
    /\ pc' = "codegen"
    /\ UNCHANGED <<prog, compile_ir, externals, idx, scopes, errors, type_table,
                   written, returned, pf>>

\* let result = generator.generate_ir_for_nodes(ast);
GenerateIR ==
    /\ pc = "codegen"
    /\ \E env \in Environments :
         gen' = generate_ir_for_nodes(gen, prog, env)
    /\ pc' = CASE gen'.halt = "exit" -> "exit_codegen"
               [] gen'.halt = "panic" -> "panic_generate"
               [] OTHER -> "generated"
    /\ UNCHANGED <<prog, compile_ir, externals, idx, scopes, errors, type_table,
                   written, returned, pf>>

\* if !result { process::exit(1); }
GenerationFailed ==
    /\ pc = "generated"
    /\ gen.result = "false"
    /\ pc' = "exit_generation"
    /\ UNCHANGED <<prog, compile_ir, externals, idx, scopes, errors, type_table,
                   written, returned, gen, pf>>

\* print_to_file, opt, clang; exit(0) when all of them succeed
Toolchain ==
    /\ pc = "generated"
    /\ gen.result = "true"
    /\ \E ok \in BOOLEAN : pc' = IF ok THEN "exit_ok" ELSE "exit_toolchain"
    /\ UNCHANGED <<prog, compile_ir, externals, idx, scopes, errors, type_table,
                   written, returned, gen, pf>>

\* without `compile' the tree goes to the interpreter
StartInterpret ==
    /\ CheckingDone
    /\ ~typecheck_failed(errors)
    /\ ~compile_ir
    /\ pc' = "interpret"
    /\ UNCHANGED <<prog, compile_ir, externals, idx, scopes, errors, type_table,
                   written, returned, gen, pf>>

Next ==
    \/ LoadExterns
    \/ CheckTopLevel
    \/ TypecheckFailed
    \/ StartCompile
    \/ GenerateIR
    \/ GenerationFailed
    \/ Toolchain
    \/ StartInterpret

Spec == Init /\ [][Next]_vars

\* main() is straight-line code: once the loop over the top-level nodes is
\* done, the test of checker.errors that follows it is executed
FairSpec == Spec /\ WF_vars(TypecheckFailed)

-----------------------------------------------------------------------------
(* can_coerce on its own: three types are drawn, and one step applies the  *)
(* function to the pairs the order laws speak about.                       *)

CoerceTypes == IntegerTypes \cup {Boolean, String, Infer, ExternWildcard}

CoerceCell(a, b, c, done, ab, ba, bc, ac, aa) ==
    [fn |-> "can_coerce", a |-> a, b |-> b, c |-> c, done |-> done,
     ab |-> ab, ba |-> ba, bc |-> bc, ac |-> ac, aa |-> aa]

InitCoerce ==
    /\ prog = << >>
    /\ compile_ir = FALSE
    /\ externals = << >>
    /\ pc = "pure"
    /\ idx = 1
    /\ scopes = << >>
    /\ errors = << >>
    /\ type_table = EmptyMap
    /\ written = << >>
    /\ returned = << >>
    /\ gen = NoGen
    /\ \E a \in CoerceTypes, b \in CoerceTypes, c \in CoerceTypes :
         pf = CoerceCell(a, b, c, FALSE, FALSE, FALSE, FALSE, FALSE, FALSE)

ApplyCanCoerce ==
    /\ pc = "pure"
    /\ pf.fn = "can_coerce"
    /\ ~pf.done
    /\ pf' = CoerceCell(pf.a, pf.b, pf.c, TRUE,
                        can_coerce(pf.a, pf.b), can_coerce(pf.b, pf.a),
                        can_coerce(pf.b, pf.c), can_coerce(pf.a, pf.c),
                        can_coerce(pf.a, pf.a))
    /\ UNCHANGED <<prog, compile_ir, externals, pc, idx, scopes, errors,
                   type_table, written, returned, gen>>

NextCoerce == ApplyCanCoerce

SpecCoerce == InitCoerce /\ [][NextCoerce]_vars

-----------------------------------------------------------------------------
(* coerce_ints_to_common_type on its own: a generator positioned in main's *)
(* entry block, two integer operands of drawn widths, and one step that    *)
(* applies the function.                                                   *)

IntWidths == {8, 16, 32, 64, 128}

\* an operand: a constant, or the result of a load
Operands ==
    { IntValue(w, "const", <<1>>) : w \in IntWidths }
    \cup { IntValue(w, "load", << >>) : w \in IntWidths }

WidenCell(left, right, done, l, r) ==
    [fn |-> "coerce_ints", left |-> left, right |-> right, done |-> done,
     l |-> l, r |-> r]

InitWiden ==
    /\ prog = << >>
    /\ compile_ir = TRUE
    /\ externals = << >>
    /\ pc = "pure"
    /\ idx = 1
    /\ scopes = << >>
    /\ errors = << >>
    /\ type_table = EmptyMap
    /\ written = << >>
    /\ returned = << >>
    /\ \E do_coerce \in BOOLEAN, folds \in BOOLEAN :
         gen = open_main(NewGenerator(do_coerce, EmptyMap, << >>, FALSE, folds,
                                      CF_DEBUG_MODE))
    /\ \E left \in Operands, right \in Operands :
         pf = WidenCell(left, right, FALSE, left, right)

ApplyCoerceInts ==
    /\ pc = "pure"
    /\ pf.fn = "coerce_ints"
    /\ ~pf.done
    /\ LET co == coerce_ints_to_common_type(gen, pf.left, pf.right)
       IN  /\ gen' = co.g
           /\ pf' = WidenCell(pf.left, pf.right, TRUE, co.l, co.r)
    /\ UNCHANGED <<prog, compile_ir, externals, pc, idx, scopes, errors,
                   type_table, written, returned>>

NextWiden == ApplyCoerceInts

SpecWiden == InitWiden /\ [][NextWiden]_vars

-----------------------------------------------------------------------------
(* Reading the two histories *)

\* the TypeErrors recorded during the invocation that `returned[k]' closes
ErrorsDuring(k) ==
    SubSeq(errors, returned[k].e0 + 1, returned[k].e1)

CountErrors(es, kind, node_id) ==
    Cardinality({ i \in DOMAIN es : es[i].kind = kind /\ es[i].node = node_id })

\* the record of the (first) return of check_expr for `node'
RecordOf(node) ==
    returned[CHOOSE i \in DOMAIN returned :
                 /\ returned[i].node = node
                 /\ \A j \in DOMAIN returned : returned[j].node = node => i <= j]

Width(t) ==
    CASE t = Integer8 -> 8
      [] t = Integer16 -> 16
      [] t = Integer32 -> 32
      [] t = Integer64 -> 64
      [] t = Integer128 -> 128

HasDirectReturn(body) == \E i \in DOMAIN body : body[i].kind = "Return"

-----------------------------------------------------------------------------
(* Properties *)

\* C1: generate_ir_for_nodes never returns true with a non-empty error list:
\* whenever the generator has returned normally with success = true, no
\* CodeGenError was recorded during the run (the error stack only grows).
C1_SuccessMeansNoErrors ==
    (pc \in {"generated", "exit_ok", "exit_toolchain", "exit_generation"}
     /\ gen.result = "true") => gen.error_stack = << >>

\* a run that lowered a function definition and returned true
C1_Witness ==
    /\ pc = "generated"
    /\ gen.result = "true"
    /\ gen.error_stack = << >>
    /\ Len(gen.functions) > 1

\* C2: code generation is never started when type checking recorded an error:
\* no generator exists in a state whose checker error list is non-empty, and
\* once every top-level node is checked with a non-empty error list the driver
\* reaches its nonzero exit.
C2_ErrorsBlockCodegen ==
    /\ [](errors # << >> =>
            (gen = NoGen /\ pc \in {"typecheck", "exit_typecheck", "panic_check_expr"}))
    /\ ((CheckingDone /\ errors # << >>) ~> (pc = "exit_typecheck"))

\* the driver was asked to compile, the checker recorded an error, and the
\* process exited before a generator was constructed
C2_Witness ==
    /\ pc = "exit_typecheck"
    /\ compile_ir
    /\ errors # << >>
    /\ gen = NoGen

\* C3: whenever check_expr returns for a node with id i, the type table maps
\* i to the type this invocation returned, on every path.
C3_ReturnedTypeIsTabled ==
    \A k \in DOMAIN returned : returned[k].tabled = returned[k].ty

\* C4: the type table is append-only and each node id is written exactly once
\* during one checker run.
C4_WrittenOnce ==
    \A i, j \in DOMAIN written : i # j => written[i] # written[j]

\* C5: check_expr is total: it never aborts, for every node variant and hint.
C5_CheckExprNeverAborts == pc # "panic_check_expr"

\* C6: the type check_expr returns for a numeric literal with value v and hint
\* h is h when h is one of the five integer types, and otherwise Integer128 if
\* v > i64::MAX, else Integer64 if v > i32::MAX, else Integer32 if
\* v > i16::MAX, else Integer16 if v > i8::MAX, else Integer32.
C6_LiteralTypeIsReference ==
    \A k \in DOMAIN returned :
        returned[k].node.kind = "NumericLiteral" =>
            LET v == returned[k].node.literal_value
                h == returned[k].expected
            IN  returned[k].ty =
                  IF h \in IntegerTypes THEN h
                  ELSE IF DigitsGT(v, I64_MAX) THEN Integer128
                  ELSE IF DigitsGT(v, I32_MAX) THEN Integer64
                  ELSE IF DigitsGT(v, I16_MAX) THEN Integer32
                  ELSE IF DigitsGT(v, I8_MAX) THEN Integer16
                  ELSE Integer32

\* a literal above i64::MAX checked under the hint Integer8, and one above
\* i64::MAX checked without a hint
C6_Witness ==
    /\ \E k \in DOMAIN returned :
         /\ returned[k].node.kind = "NumericLiteral"
         /\ DigitsGT(returned[k].node.literal_value, I64_MAX)
         /\ returned[k].expected = Integer8
         /\ returned[k].ty = Integer8
    /\ pc = "typecheck"

\* C7: on the five integer types can_coerce(a, b) holds iff
\* width(a) <= width(b); it is reflexive, transitive, and for a # b never
\* holds in both directions.
C7_CoerceIsWidening ==
    (pf.fn = "can_coerce" /\ pf.done
     /\ {pf.a, pf.b, pf.c} \subseteq IntegerTypes) =>
        /\ pf.ab = (Width(pf.a) <= Width(pf.b))
        /\ pf.aa
        /\ ((pf.ab /\ pf.bc) => pf.ac)
        /\ ((pf.a # pf.b) => ~(pf.ab /\ pf.ba))

\* Integer8 -> Integer64 accepted, Integer64 -> Integer8 refused
C7_Witness ==
    /\ pf.fn = "can_coerce"
    /\ pf.done
    /\ pf.a = Integer8 /\ pf.b = Integer64
    /\ pf.ab /\ ~pf.ba

C9_ListLiteralType ==
    \A k \in DOMAIN returned :
        (returned[k].node.kind = "ListLiteral" /\ Len(returned[k].node.props) >= 1) =>
            LET l == returned[k].node
                n == Len(l.props)
                first == RecordOf(l.props[1]).ty
            IN  /\ returned[k].ty = ArrayT(first, TRUE, 0, n)
                /\ CountErrors(ErrorsDuring(k), "non_uniform", l.id)
                     = Cardinality({ j \in 2..n :
                                       ~can_coerce(RecordOf(l.props[j]).ty, first) })

\* [1, "a"]: Array of Integer32 with two elements and one non-uniform error
C9_Witness ==
    \E k \in DOMAIN returned :
        /\ returned[k].node.kind = "ListLiteral"
        /\ Len(returned[k].node.props) = 2
        /\ returned[k].node.props[2].kind = "StringLiteral"
        /\ returned[k].ty = ArrayT(Integer32, TRUE, 0, 2)
        /\ returned[k].e1 = returned[k].e0 + 1

\* C10: a call whose callee has Function type with p parameters and which
\* passes a # p arguments records exactly one TypeError, the arity error, and
\* its type is Unknown.
C10_ArityMismatch ==
    \A k \in DOMAIN returned :
        (/\ returned[k].node.kind = "CallExpr"
         /\ RecordOf(returned[k].node.caller).ty.tag = "Function"
         /\ Len(RecordOf(returned[k].node.caller).ty.params)
              # Len(returned[k].node.args)) =>
            /\ returned[k].ty = Unknown
            /\ returned[k].e1 = RecordOf(returned[k].node.caller).e1 + 1
            /\ errors[returned[k].e1].kind = "arity"
            /\ errors[returned[k].e1].node = returned[k].node.id

\* f has two parameters and is called with one argument
C10_Witness ==
    \E k \in DOMAIN returned :
        /\ returned[k].node.kind = "CallExpr"
        /\ RecordOf(returned[k].node.caller).ty.tag = "Function"
        /\ Len(RecordOf(returned[k].node.caller).ty.params) = 2
        /\ Len(returned[k].node.args) = 1
        /\ returned[k].ty = Unknown

\* the two operands of a binary expression or a comparator
LeftOperand(n) == IF n.kind = "BinaryExpr" THEN n.left ELSE n.lhs
RightOperand(n) == IF n.kind = "BinaryExpr" THEN n.right ELSE n.rhs

\* C11: for BinaryExpr and Comparator nodes the left operand is checked with
\* no hint and the right operand with the left's resolved type as hint, and
\* whenever the two resolved operand types differ a TypeError is recorded for
\* that expression.
C11_OperandMismatchIsError ==
    \A k \in DOMAIN returned :
        returned[k].node.kind \in {"BinaryExpr", "Comparator"} =>
            LET l == RecordOf(LeftOperand(returned[k].node))
                r == RecordOf(RightOperand(returned[k].node))
            IN  /\ l.expected = NoneT
                /\ r.expected = l.ty
                /\ (l.ty # r.ty =>
                      \E i \in DOMAIN ErrorsDuring(k) :
                          ErrorsDuring(k)[i].node = returned[k].node.id)

\* a call of `name', as a statement or as the value of a `return'
IsCallOf(stmt, name) ==
    /\ stmt.kind = "CallExpr"
    /\ stmt.caller.kind = "Identifier"
    /\ stmt.caller.identifier_name = name

CallsItself(fdef) ==
    \E i \in DOMAIN fdef.body :
        \/ IsCallOf(fdef.body[i], fdef.name)
        \/ /\ fdef.body[i].kind = "Return"
           /\ IsCallOf(fdef.body[i].return_statement, fdef.name)

\* C12: a self-recursive call does not type-check: when the body of f calls f
\* (no other binding named f being in scope), checking the definition of f
\* records at least one TypeError.
C12_SelfCallIsError ==
    \A k \in DOMAIN returned :
        (returned[k].node.kind = "FunctionDefinition" /\ CallsItself(returned[k].node))
            => ErrorsDuring(k) # << >>

\* C13: a type cast is accepted (no TypeError recorded) exactly when
\* can_coerce(source, target) or can_coerce(target, source) holds; a cast for
\* which neither holds records a TypeError.
C13_CastAcceptedEitherDirection ==
    \A k \in DOMAIN returned :
        returned[k].node.kind = "TypeCast" =>
            LET source == RecordOf(returned[k].node.left).ty
                target == returned[k].node.target_type
            IN  (CountErrors(ErrorsDuring(k), "cannot_cast", returned[k].node.id) = 0)
                  <=> (can_coerce(source, target) \/ can_coerce(target, source))

\* C14: the type check_expr returns for a cast expression e@T is always the
\* target type T, for every operand type and every target among i8, i16,
\* i32, i64, i128 and inferred, whether or not a TypeError is recorded.
C14_CastReturnsTarget ==
    \A k \in DOMAIN returned :
        returned[k].node.kind = "TypeCast" =>
            /\ returned[k].ty = returned[k].node.target_type
            /\ returned[k].tabled = returned[k].node.target_type

\* a string cast to i8: refused with a TypeError, and typed Integer8
C14_Witness ==
    \E k \in DOMAIN returned :
        /\ returned[k].node.kind = "TypeCast"
        /\ returned[k].node.target_type = Integer8
        /\ RecordOf(returned[k].node.left).ty = String
        /\ CountErrors(ErrorsDuring(k), "cannot_cast", returned[k].node.id) = 1
        /\ returned[k].ty = Integer8

\* the driver positions at which a generator exists
GeneratorPositions ==
    {"codegen", "generated", "exit_codegen", "panic_generate", "exit_generation",
     "exit_ok", "exit_toolchain"}

\* C15: every type without an IR mapping (Infer, Unknown, Void, Function,
\* ExternWildcard) that reaches t_to_llvm_type makes generation unwind at
\* once: the error is recorded and the process terminates, no further node
\* being lowered (so the error is the last one recorded).
C15_UnmappedTypeIsFatal ==
    pc \in GeneratorPositions =>
        \A i \in DOMAIN gen.error_stack :
            gen.error_stack[i] \in {"unmapped_type", "infer_in_codegen"} =>
                /\ gen.halt = "exit"
                /\ i = Len(gen.error_stack)

\* where the module calls `name'
CallSites(g, name) ==
    { bi \in UNION { {<<b, i>> : i \in DOMAIN g.blocks[b].insts} : b \in DOMAIN g.blocks } :
        /\ g.blocks[bi[1]].insts[bi[2]].op = "call"
        /\ g.blocks[bi[1]].insts[bi[2]].callee = name }

\* the calls of `name' whose callee passed the test of its returns
CallsAllowed(g, name) ==
    { i \in DOMAIN g.events :
        /\ g.events[i][1] = "call" /\ g.events[i][2] = name /\ g.events[i][3] }

\* C16: lowering a call of a user-defined function that, at that moment, has
\* no basic block terminated by a return of a defined value is fatal: an error
\* is recorded, generation terminates immediately, and no call instruction to
\* that function is emitted for it.
C16_CallWithoutReturnIsFatal ==
    pc \in (GeneratorPositions \ {"codegen"}) =>
        \A i \in DOMAIN gen.events :
            (gen.events[i][1] = "call" /\ ~gen.events[i][3]) =>
                /\ gen.halt = "exit"
                /\ i = Len(gen.events)
                /\ gen.error_stack # << >>
                /\ gen.error_stack[Len(gen.error_stack)] = "no_valid_return"
                /\ Cardinality(CallSites(gen, gen.events[i][2]))
                     <= Cardinality(CallsAllowed(gen, gen.events[i][2]))

\* f calls itself before its `return': the call is refused and the process
\* exits with no call of f in the module
C16_Witness ==
    /\ pc = "exit_codegen"
    /\ \E i \in DOMAIN gen.events :
         gen.events[i] = <<"call", "f", FALSE>>
    /\ CallSites(gen, "f") = {}
    /\ gen.error_stack = <<"no_valid_return">>

\* the instructions of the module with opcode `op', as <<block, index>>
InstsOf(g, op) ==
    { bi \in UNION { {<<b, i>> : i \in DOMAIN g.blocks[b].insts} : b \in DOMAIN g.blocks } :
        g.blocks[bi[1]].insts[bi[2]].op = op }

InstAt(g, bi) == g.blocks[bi[1]].insts[bi[2]]

\* C17: for `bind x as i32 = 1 + 2' the checker records no error and the
\* generated module holds exactly one stack-slot allocation for x, exactly one
\* add instruction whose operands are the 32-bit constants 1 and 2 (not a
\* folded constant 3), and exactly one store of the add's result into x's
\* slot, the add preceding the store.
C17_BindSumLowering ==
    (prog = BindSum /\ pc \in (GeneratorPositions \ {"codegen"})) =>
        /\ errors = << >>
        /\ \E a \in InstsOf(gen, "alloca"), s \in InstsOf(gen, "+"),
              t \in InstsOf(gen, "store") :
              /\ InstsOf(gen, "alloca") = {a}
              /\ InstsOf(gen, "+") = {s}
              /\ InstsOf(gen, "store") = {t}
              /\ InstAt(gen, a).args = <<ValueOf(IntType(32), "x")>>
              /\ InstAt(gen, s).args = <<IntValue(32, "const", <<1>>),
                                        IntValue(32, "const", <<2>>)>>
              /\ InstAt(gen, t).args = <<PointerValue("x"), IntValue(32, "+", << >>)>>
              /\ s[1] = t[1] /\ s[2] < t[2]

\* the binding of `name' in a scope frame (NoneT when the frame has none)
BindingIn(frame, name) == IF name \in DOMAIN frame THEN frame[name] ELSE NoneT

\* the records of the invocations made while `returned[k]' was being checked
RecordsDuring(k) == (returned[k].r0 + 1) .. (k - 1)

\* `name' is a parameter of the definition closed by `returned[k]', or is
\* declared by a statement checked inside it no later than `returned[j]'
DeclaredInside(k, j, name) ==
    \/ \E i \in DOMAIN returned[k].node.params : returned[k].node.params[i].name = name
    \/ \E i \in (returned[k].r0 + 1) .. j :
          \/ /\ returned[i].node.kind = "VarDeclaration"
             /\ returned[i].node.var_identifier = name
          \/ /\ returned[i].node.kind = "FunctionDefinition"
             /\ returned[i].node.name = name

\* C18: while the body of a function definition is checked, the function's
\* own name is not bound by that definition in any scope frame: the enclosing
\* frames bind the name as they did before the definition, the function's own
\* frame is still open and binds the name only for a parameter or a
\* declaration of the body.  The Function type is inserted into the enclosing
\* scope only after every body statement is checked and the function's frame
\* is popped.
C18_NameBoundAfterBody ==
    \A k \in DOMAIN returned :
        returned[k].node.kind = "FunctionDefinition" =>
            LET F == returned[k].node
                n0 == Len(returned[k].s0)
            IN  /\ \A j \in RecordsDuring(k) :
                      /\ Len(returned[j].s1) > n0
                      /\ \A i \in 1 .. n0 :
                            BindingIn(returned[j].s1[i], F.name)
                                = BindingIn(returned[k].s0[i], F.name)
                      /\ \A i \in (n0 + 1) .. Len(returned[j].s1) :
                            F.name \in DOMAIN returned[j].s1[i]
                                => DeclaredInside(k, j, F.name)
                /\ Len(returned[k].s1) = n0
                /\ returned[k].s1[n0][F.name] = FunctionT(F.params, F.return_type)
                /\ \A i \in 1 .. (n0 - 1) : returned[k].s1[i] = returned[k].s0[i]

\* f names itself in its body: the identifier was looked up with f unbound in
\* both frames (and so typed Unknown), and f is bound once the definition
\* has returned
C18_Witness ==
    \E k \in DOMAIN returned :
        /\ returned[k].node.kind = "FunctionDefinition"
        /\ returned[k].node.name = "f"
        /\ returned[k].s1[1]["f"] = FunctionT(returned[k].node.params,
                                               returned[k].node.return_type)
        /\ \E j \in RecordsDuring(k) :
              /\ returned[j].node = Identifier(0, "f")
              /\ returned[j].ty = Unknown
              /\ Len(returned[j].s1) = 2
              /\ \A i \in 1 .. 2 : "f" \notin DOMAIN returned[j].s1[i]

\* the `return' statements of a statement list at any nesting depth: directly
\* in the list, or inside an if, a while or a block of it
RECURSIVE ReturnsIn(_)
ReturnsIn(body) ==
    UNION { IF body[i].kind = "Return" THEN {body[i]}
            ELSE IF body[i].kind \in {"IfStmt", "WhileStmt", "Block"}
                 THEN ReturnsIn(body[i].body)
                 ELSE {} : i \in DOMAIN body }

\* C19: every return statement inside a function body, at any nesting depth,
\* has its expression checked with the declared return type as hint, and a
\* TypeError is recorded for the definition whenever the type of the returned
\* expression differs from the declared return type.
C19_EveryReturnIsChecked ==
    \A k \in DOMAIN returned :
        returned[k].node.kind = "FunctionDefinition" =>
            \A ret \in ReturnsIn(returned[k].node.body) :
                \E j \in RecordsDuring(k) :
                    /\ returned[j].node = ret.return_statement
                    /\ returned[j].expected = returned[k].node.return_type
                    /\ (returned[j].ty # returned[k].node.return_type
                          => \E i \in DOMAIN ErrorsDuring(k) :
                                 /\ ErrorsDuring(k)[i].kind = "return_mismatch"
                                 /\ ErrorsDuring(k)[i].node = returned[k].node.id)

\* the top-level statement just checked, or abandoned by a panic
Settled(i) ==
    /\ i \in DOMAIN prog
    /\ \/ pc # "load_externs" /\ idx > i
       \/ pc = "panic_check_expr" /\ idx = i

\* C20: for a member expression whose base is an Array of known length n > 0
\* and whose index is a numeric literal k, an out-of-bounds TypeError is
\* recorded if and only if k >= n, and the expression's type is the array's
\* element type; for a base that is not an Array the type is Unknown and the
\* expression itself records no error.
C20_LiteralIndexBounds ==
    \A i \in DOMAIN prog :
        (Settled(i) /\ prog[i].kind = "MemberExpr"
         /\ prog[i].property.kind = "NumericLiteral") =>
            LET m == prog[i]
                base == RecordOf(m.object)
            IN  IF base.ty.tag = "Array"
                THEN (base.ty.is_stack_alloca /\ base.ty.element_count > 0) =>
                       /\ (CountErrors(errors, "out_of_bounds", m.id) = 1)
                            <=> ~DigitsGT(NatToDigits(base.ty.element_count),
                                          m.property.literal_value)
                       /\ CountErrors(errors, "out_of_bounds", m.id) <= 1
                       /\ \E k \in DOMAIN returned :
                             /\ returned[k].node = m
                             /\ returned[k].ty = base.ty.array_t
                ELSE \E k \in DOMAIN returned :
                         /\ returned[k].node = m
                         /\ returned[k].ty = Unknown
                         /\ returned[k].e1 = base.e1

\* the constructs that open a lexical block, a function body or a
\* control-flow arm
ScopedKinds == {"Block", "IfStmt", "WhileStmt", "MatchExpr", "FunctionDefinition"}

\* what `name' resolves to in the frames `sc'
Resolves(sc, name) == lookup_from(sc, name, Len(sc))

\* C21: a scope frame is pushed on entering each lexical block, function body
\* and control-flow arm and popped on leaving it, strictly nested: the depth
\* of the scope stack after checking such a construct equals the depth before
\* it, and a binding declared inside the construct is no longer resolvable
\* once the construct has ended (its name resolves as it did before).
C21_ScopesAreLexical ==
    \A k \in DOMAIN returned :
        returned[k].node.kind \in ScopedKinds =>
            /\ Len(returned[k].s1) = Len(returned[k].s0)
            /\ \A j \in RecordsDuring(k) :
                  returned[j].node.kind = "VarDeclaration" =>
                      Resolves(returned[k].s1, returned[j].node.var_identifier)
                          = Resolves(returned[k].s0, returned[j].node.var_identifier)

\* the warnings of kind `kind' about `name' emitted by the e-th exit_scope
WarningsAt(g, e, kind, name) ==
    Cardinality({ i \in (g.exits[e].w0 + 1) .. g.exits[e].w1 :
                    g.warning_stack[i] = [kind |-> kind, name |-> name] })

\* the bindings declared under `name' in the frame closed by the e-th exit
DeclaredAt(g, e, name) ==
    { i \in DOMAIN g.bindings :
        /\ g.bindings[i].declared
        /\ g.bindings[i].exit = e
        /\ g.bindings[i].name = name }

\* C22: when a generator scope is exited, each binding declared in that
\* frame gets exactly one "declared but never read" warning if and only if it
\* was never read while in scope, and exactly one "never mutated" warning if
\* and only if it was declared mutable and never written; so the warnings of
\* an exit about a name are as many as the bindings of that name in the frame
\* that went unread (or mutable and unwritten), uses of other bindings not
\* counting.
C22_UsageWarnings ==
    pc \in (GeneratorPositions \ {"codegen"}) =>
        \A b \in DOMAIN gen.bindings :
            (gen.bindings[b].declared /\ gen.bindings[b].exit # 0) =>
                LET e == gen.bindings[b].exit
                    n == gen.bindings[b].name
                IN  /\ WarningsAt(gen, e, "never_read", n)
                         = Cardinality({ i \in DeclaredAt(gen, e, n) :
                                           ~gen.bindings[i].read })
                    /\ WarningsAt(gen, e, "never_mutated", n)
                         = Cardinality({ i \in DeclaredAt(gen, e, n) :
                                           /\ gen.bindings[i].is_mut
                                           /\ ~gen.bindings[i].written })

\* C23: for every exported submodule of every referenced foreign module the
\* build of its archive has completed successfully before the submodule's
\* symbol is declared in the module; a submodule whose build failed has no
\* declared symbol.  So every declaration follows a completed build of the
\* same name.
C23_BuildBeforeDeclare ==
    pc \in (GeneratorPositions \ {"codegen"}) =>
        \A i \in DOMAIN gen.events :
            gen.events[i][1] = "declare" =>
                \E j \in 1 .. (i - 1) :
                    gen.events[j] = <<"build", gen.events[i][2]>>

\* the driver positions after generate_ir_for_nodes has returned
ReturnedPositions == {"generated", "exit_generation", "exit_ok", "exit_toolchain"}

\* the instructions with opcode `op' in the blocks of function `sym'
InstsIn(g, sym, op) == { bi \in InstsOf(g, op) : g.blocks[bi[1]].fn = sym }

UnreachableWarnings(g, name) ==
    Cardinality({ i \in DOMAIN g.warning_stack :
                    g.warning_stack[i] = [kind |-> "unreachable_function", name |-> name] })

C25_CallFramesBalanced ==
    (pc \in ReturnedPositions /\ gen.debug_mode) =>
        /\ \A bi \in InstsOf(gen, "call") :
              /\ \E i \in 1 .. (bi[2] - 1) : gen.blocks[bi[1]].insts[i].op = "push_frame"
              /\ bi[2] < Len(gen.blocks[bi[1]].insts)
              /\ gen.blocks[bi[1]].insts[bi[2] + 1].op = "pop_frame"
        /\ Cardinality(InstsOf(gen, "push_frame")) = Cardinality(InstsOf(gen, "pop_frame"))

Wider(a, b) == IF a >= b THEN a ELSE b

\* C26: with width coercion enabled, coerce_ints_to_common_type returns, for
\* every pair of operand widths of {8, 16, 32, 64, 128}, both operands in the
\* wider of the two types and records no CodeGenError; with coercion
\* disabled, or when both widths are equal, both operands are returned
\* unchanged and no cast instruction is emitted.
C26_CoerceToWider ==
    (pf.fn = "coerce_ints" /\ pf.done) =>
        IF gen.coerce_types /\ pf.left.w # pf.right.w
        THEN /\ pf.l.w = Wider(pf.left.w, pf.right.w)
             /\ pf.r.w = Wider(pf.left.w, pf.right.w)
             /\ gen.error_stack = << >>
        ELSE /\ pf.l = pf.left
             /\ pf.r = pf.right
             /\ InstsOf(gen, "int_cast") = {}

\* C27: function parameters can be mutated uniformly with locals: inside a
\* function body, lowering an assignment whose target is a parameter succeeds
\* and emits a store of the assigned value into the parameter's stack slot.
C27_ParamAssignable ==
    (prog = ParamAssign /\ pc \in (GeneratorPositions \ {"codegen"})) =>
        /\ gen.halt = "none"
        /\ \E bi \in InstsIn(gen, <<"f", 0>>, "store") :
              InstAt(gen, bi).args = <<PointerValue("p"), IntValue(32, "const", <<2>>)>>

\* a straight-line instruction sequence ending in exactly one terminator
WellFormedBlock(b) ==
    /\ Len(b.insts) > 0
    /\ b.insts[Len(b.insts)].op \in TerminatorOps
    /\ \A i \in 1 .. (Len(b.insts) - 1) : b.insts[i].op \notin TerminatorOps

\* C28: in every module produced by a successful generate run each basic
\* block is a straight-line instruction sequence ending in exactly one
\* terminator (branch, switch, return or unreachable): no instruction is
\* emitted into a block after its terminator.
C28_BlocksEndInOneTerminator ==
    (pc \in ReturnedPositions /\ gen.result = "true") =>
        \A b \in DOMAIN gen.blocks : WellFormedBlock(gen.blocks[b])

\* the blocks that branch or switch to block `b'
Predecessors(g, b) ==
    { p \in DOMAIN g.blocks :
        \E i \in DOMAIN g.blocks[p].insts :
            \E t \in DOMAIN g.blocks[p].insts[i].to : g.blocks[p].insts[i].to[t] = b }

\* C29: when a match expression is lowered the body of each arm is lowered
\* exactly once, into the arm's own case block, and the phi of the end block
\* has exactly one incoming value per predecessor block (one per arm plus the
\* default block): nothing is emitted into the end block ahead of the phi,
\* and the phi's incoming blocks are the distinct predecessors of its block.
C29_ArmsLoweredOnce ==
    pc \in ReturnedPositions =>
        \A bi \in InstsOf(gen, "phi") :
            /\ bi[2] = 1
            /\ Len(InstAt(gen, bi).args) = Len(InstAt(gen, bi).to)
            /\ Cardinality({ InstAt(gen, bi).to[i] : i \in DOMAIN InstAt(gen, bi).to })
                 = Len(InstAt(gen, bi).to)
            /\ \A i \in DOMAIN InstAt(gen, bi).to :
                  InstAt(gen, bi).to[i] \in Predecessors(gen, bi[1])

\* C30: lowering a function definition leaves the enclosing scope's name
\* resolution unchanged: once the definition has been lowered, get_variable
\* of each parameter name returns what it returned before the definition.
C30_ParamsScopedToBody ==
    pc \in (GeneratorPositions \ {"codegen"}) =>
        \A d \in DOMAIN gen.defs :
            \A i \in DOMAIN gen.defs[d].before :
                gen.defs[d].after[i] = gen.defs[d].before[i]

====
